---- MODULE Spec2Model ----
(***************************************************************************)
(* A model of gr_modtool.py: the regular-expression driven editor of       *)
(* CMakeLists.txt buffers, the code templates, the command dispatcher and  *)
(* the add / remove / newmod operations.                                   *)
(*                                                                         *)
(* Text is modelled by TLA+ strings, one character per position.  Every    *)
(* regular expression of the source is transcribed as a sequence of items  *)
(* (a character class with a repetition range, greedy or lazy, or a line   *)
(* anchor) and matched by a backtracking matcher with the priorities of    *)
(* Python's re module: leftmost start, then greedy items longest first     *)
(* and lazy items shortest first.                                          *)
(***************************************************************************)
EXTENDS Integers, Sequences, FiniteSets, TLC

VARIABLES
  ed,     \* a CMakeFileEditor: its buffer and separator, and what was done to it
  cg,     \* a CodeGenerator at work on one string or one template
  cli,    \* the process from main() on: its argument vector, output and exit
  mt      \* a command object at work: its fields, the process's output and
          \* exit, and the file system it works on

vars == <<ed, cg, cli, mt>>

\* The value of a variable the specification at hand does not use.
Idle == [idle |-> TRUE]

(***************************************************************************)
(* Regular expressions                                                     *)
(***************************************************************************)

\* The character of string s at position p (1-based); "" outside s.
Ch(s, p) == IF p \in 1..Len(s) THEN SubSeq(s, p, p) ELSE ""

\* \s of Python 2's re on byte strings: [ \t\n\r\f\v].
WS == {" ", "\t", "\n", "\r", "\f"}

\* Character classes, line anchors and literal text.
In(cs)    == [k |-> "in",  cs |-> cs, str |-> ""]
NotIn(cs) == [k |-> "not", cs |-> cs, str |-> ""]
AnyCh     == NotIn({"\n"})                            \* '.' without DOTALL
Bol       == [k |-> "bol", cs |-> {}, str |-> ""]     \* '^' under re.MULTILINE
Eol       == [k |-> "eol", cs |-> {}, str |-> ""]     \* '$' under re.MULTILINE
Word(str) == [k |-> "lit", cs |-> {}, str |-> str]    \* the characters of str

\* Items: a class with a repetition range and a greedy/lazy preference.
\* (lo: the least number of repetitions; many: whether more than one
\* repetition is allowed, and then there is no upper limit.)
One(a)      == [a |-> a, lo |-> 1, many |-> FALSE, lazy |-> FALSE]
Opt(a)      == [a |-> a, lo |-> 0, many |-> FALSE, lazy |-> FALSE]
Star(a)     == [a |-> a, lo |-> 0, many |-> TRUE,  lazy |-> FALSE]
Plus(a)     == [a |-> a, lo |-> 1, many |-> TRUE,  lazy |-> FALSE]
StarLazy(a) == [a |-> a, lo |-> 0, many |-> TRUE,  lazy |-> TRUE]
Caret       == One(Bol)
Dollar      == One(Eol)

\* A literal string as a pattern.
Lit(str) == <<One(Word(str))>>

\* A string pasted unescaped into a pattern, as the source does with file
\* names: '.' is the wildcard, every other character of a file name stands
\* for itself.
RawRegex(str) ==
  [i \in 1..Len(str) |-> IF Ch(str, i) = "." THEN One(AnyCh)
                                              ELSE One(Word(Ch(str, i)))]

ClassHas(a, c) ==
  CASE a.k = "in"  -> c \in a.cs
    [] a.k = "not" -> c \notin a.cs
    [] OTHER       -> FALSE

Least(S) == CHOOSE x \in S : \A y \in S : x <= y
Most(S)  == CHOOSE x \in S : \A y \in S : x >= y

\* How many consecutive characters of s from position p are in class a;
\* at most one is counted unless many.
RunLen(a, s, p, many) ==
  LET stop == {q \in p..Len(s) : ~ClassHas(a, Ch(s, q))}
      run  == IF stop = {} THEN Len(s) - p + 1 ELSE Least(stop) - p
  IN  IF many \/ run = 0 THEN run ELSE 1

\* A match that starts at p and goes on as rest does.
Then(p, rest) == IF rest = <<>> THEN <<>> ELSE <<p>> \o rest

\* Of the numbers of repetitions after which the rest matches (rests[c] is
\* the rest of the match after c repetitions): the largest, or with lazy
\* the smallest.
Pick(p, rests, lazy) ==
  LET ok == {c \in DOMAIN rests : rests[c] # <<>>}
  IN  IF ok = {} THEN <<>>
      ELSE <<p>> \o rests[IF lazy THEN Least(ok) ELSE Most(ok)]

\* Where an anchor or a literal text leaves position p; 0 for no match.
Step(a, s, p) ==
  CASE a.k = "bol" -> IF p = 1 \/ Ch(s, p - 1) = "\n" THEN p ELSE 0
    [] a.k = "eol" -> IF p = Len(s) + 1 \/ Ch(s, p) = "\n" THEN p ELSE 0
    [] OTHER -> IF /\ p + Len(a.str) - 1 <= Len(s)
                   /\ SubSeq(s, p, p + Len(a.str) - 1) = a.str
                  THEN p + Len(a.str) ELSE 0

\* MatchFrom(re, k, s, p): items k.. of re matched against s from position
\* p.  The result is <<>> when they do not match, and otherwise the
\* positions at which each of the items k..Len(re) starts, followed by the
\* position after the match.  A repeated item takes the largest number of
\* characters with which the rest matches, a lazy one the smallest.
RECURSIVE MatchFrom(_, _, _, _)
MatchFrom(re, k, s, p) ==
  IF k > Len(re) THEN <<p>>
  ELSE IF re[k].a.k \in {"bol", "eol", "lit"}
    THEN IF Step(re[k].a, s, p) = 0 THEN <<>>
         ELSE Then(p, MatchFrom(re, k + 1, s, Step(re[k].a, s, p)))
  ELSE Pick(p, [c \in re[k].lo..RunLen(re[k].a, s, p, re[k].many) |->
                  MatchFrom(re, k + 1, s, p + c)],
            re[k].lazy)

\* Of the matches tried at each position: the one with the leftmost start.
Leftmost(tries) ==
  LET starts == {q \in DOMAIN tries : tries[q] # <<>>}
  IN  IF starts = {} THEN <<>> ELSE tries[Least(starts)]

\* re.search from position p on.
SearchFrom(re, s, p) ==
  Leftmost([q \in p..(Len(s) + 1) |-> MatchFrom(re, 1, s, q)])

Search(re, s) == SearchFrom(re, s, 1)

\* Of a match m of re: where it starts and ends, and the text of the group
\* that spans items i..j.
MStart(m) == m[1]
MEnd(m) == m[Len(m)]
Group(s, m, i, j) == SubSeq(s, m[i], m[j + 1] - 1)

\* s with the text of match m replaced by repl.
Splice(s, m, repl) ==
  SubSeq(s, 1, MStart(m) - 1) \o repl \o SubSeq(s, MEnd(m), Len(s))

\* re.sub(re, '', s, count=1) where m is the first match of re in s.
Cut(s, m) == IF m = <<>> THEN s ELSE Splice(s, m, "")

\* re.sub(re, repl, s) for a pattern that matches no empty string and a
\* constant replacement: every non-overlapping match, left to right.
RECURSIVE SubAllFrom(_, _, _, _)
SubAllAt(re, repl, s, p, m) ==
  IF m = <<>> THEN SubSeq(s, p, Len(s))
  ELSE SubSeq(s, p, MStart(m) - 1) \o repl \o SubAllFrom(re, repl, s, MEnd(m))

SubAllFrom(re, repl, s, p) == SubAllAt(re, repl, s, p, SearchFrom(re, s, p))

SubAll(re, repl, s) == SubAllFrom(re, repl, s, 1)

\* str.strip(): without its leading and trailing whitespace.
Strip(s) ==
  LET keep == {p \in 1..Len(s) : Ch(s, p) \notin WS}
  IN  IF keep = {} THEN "" ELSE SubSeq(s, Least(keep), Most(keep))

\* Whether string t occurs in string s.
Contains(s, t) ==
  \E p \in 1..(Len(s) - Len(t) + 1) : SubSeq(s, p, p + Len(t) - 1) = t

(***************************************************************************)
(* CMakeFileEditor                                                         *)
(***************************************************************************)

NoParen == NotIn({"(", ")"})

\* The to_ignore patterns the source passes: '' and 'DESTINATION[^()]+'.
NoIgnore == <<>>
DestinationIgnore == Lit("DESTINATION") \o <<Plus(NoParen)>>

\* What match m of '%s\(%s([^()]+)\)' in cfile gives: found is FALSE for
\* None, and the value is stripped.
EntryValueAt(cfile, m) ==
  IF m = <<>> THEN [found |-> FALSE, value |-> ""]
  ELSE [found |-> TRUE, value |-> Strip(Group(cfile, m, Len(m) - 2, Len(m) - 2))]

\* '%s\(%s([^()]+)\)' % (entry, to_ignore)
get_entry_value(cfile, entry, to_ignore) ==
  EntryValueAt(cfile,
    Search(Lit(entry) \o Lit("(") \o to_ignore \o <<Plus(NoParen)>> \o Lit(")"),
           cfile))

\* '(%s\([^()]*?)\s*?(\s?%s)\)' % (entry, to_ignore), replaced once by
\* r'\1' + separator + value + r'\2)'.  (Group 1 is items 1..3, group 2
\* items 5..5+Len(to_ignore).)
AppendAt(cfile, separator, value, to_ignore, m) ==
  IF m = <<>> THEN cfile
  ELSE Splice(cfile, m,
              Group(cfile, m, 1, 3) \o separator \o value
              \o Group(cfile, m, 5, 5 + Len(to_ignore)) \o ")")

append_value(cfile, separator, entry, value, to_ignore) ==
  AppendAt(cfile, separator, value, to_ignore,
    Search(Lit(entry) \o Lit("(") \o <<StarLazy(NoParen)>>
             \o <<StarLazy(In(WS))>>
             \o <<Opt(In(WS))>> \o to_ignore
             \o Lit(")"),
           cfile))

\* '^\s*(%s\(\s*%s[^()]*?\s*)%s\s*([^()]*\))' % (entry, to_ignore, value),
\* replaced once by r'\1\2'.  (Group 1 is items 3..7+Len(to_ignore), group
\* 2 the last two items.)
RemoveAt(cfile, to_ignore, m) ==
  IF m = <<>> THEN cfile
  ELSE Splice(cfile, m,
              Group(cfile, m, 3, 7 + Len(to_ignore))
              \o Group(cfile, m, Len(m) - 2, Len(m) - 1))

remove_value(cfile, entry, value, to_ignore) ==
  RemoveAt(cfile, to_ignore,
    Search(<<Caret, Star(In(WS))>>
             \o Lit(entry) \o Lit("(") \o <<Star(In(WS))>> \o to_ignore
             \o <<StarLazy(NoParen), Star(In(WS))>>
             \o RawRegex(value) \o <<Star(In(WS))>>
             \o <<Star(NoParen)>> \o Lit(")"),
           cfile))

\* delete_entry with a pattern that asks for no closing parenthesis.
delete_entry_unclosed(cfile, entry, value_pattern) ==
  Cut(cfile,
    Search(Lit(entry) \o <<Star(In(WS))>> \o Lit("(") \o <<Star(NoParen)>>
             \o RawRegex(value_pattern)
             \o <<Star(NotIn({"\n"}))>> \o Lit("\n"),
           cfile))

\* '%s\s*\([^()]*%s[^()]*\)[^\n]*\n' % (entry, value_pattern), replaced
\* once by ''.
delete_entry(cfile, entry, value_pattern) ==
  Cut(cfile,
    Search(Lit(entry) \o <<Star(In(WS))>> \o Lit("(") \o <<Star(NoParen)>>
             \o RawRegex(value_pattern) \o <<Star(NoParen)>> \o Lit(")")
             \o <<Star(NotIn({"\n"}))>> \o Lit("\n"),
           cfile))

\* re.sub('\n\n\n+', '\n\n', cfile)
remove_double_newlines(cfile) ==
  SubAll(Lit("\n\n") \o <<Plus(In({"\n"}))>>, "\n\n", cfile)

(***************************************************************************)
(* CodeGenerator: argument lists                                           *)
(***************************************************************************)

\* self.defvalpatt = re.compile(" *=[^,)]*")
defvalpatt == <<Star(In({" "}))>> \o Lit("=") \o <<Star(NotIn({",", ")"}))>>

\* self.defvalpatt.sub("", string) with count = 1: only the first default
\* value goes.
strip_first_default_value(string) == Cut(string, Search(defvalpatt, string))

\* self.defvalpatt.sub("", string)
strip_default_values(string) == SubAll(defvalpatt, "", string)

\* The i-th smallest member of a set of numbers.
Nth(S, i) == CHOOSE x \in S : Cardinality({y \in S : y < x}) = i - 1

\* str.split(sep) for a one-character sep: the pieces between separators.
Split(s, sep) ==
  LET at == {p \in 1..Len(s) : Ch(s, p) = sep}
      cut(i) == IF i = 0 THEN 0
                ELSE IF i > Cardinality(at) THEN Len(s) + 1
                ELSE Nth(at, i)
  IN  [i \in 1..(Cardinality(at) + 1) |->
         SubSeq(s, cut(i - 1) + 1, cut(i) - 1)]

\* The strings parts[lo..hi] one after the other.
RECURSIVE Concat(_, _, _)
Concat(parts, lo, hi) ==
  IF lo > hi THEN ""
  ELSE IF lo = hi THEN parts[lo]
  ELSE LET mid == (lo + hi) \div 2
       IN  Concat(parts, lo, mid) \o Concat(parts, mid + 1, hi)

\* sep.join(parts)
Join(parts, sep) ==
  Concat([i \in 1..Len(parts) |-> IF i = 1 THEN parts[i] ELSE sep \o parts[i]],
         1, Len(parts))

\* ", ".join([part.strip().split(' ')[-1] for part in string.split(',')])
\* of the list without its default values.
Last(seq) == seq[Len(seq)]
LastWords(parts) ==
  [i \in 1..Len(parts) |-> Last(Split(Strip(parts[i]), " "))]
strip_arg_types(string) ==
  Join(LastWords(Split(strip_default_values(string), ",")), ", ")

(***************************************************************************)
(* Templates                                                               *)
(*                                                                         *)
(* A string.Template is a sequence of segments: literal text, and          *)
(* placeholders ($name or ${name}; $$ is the literal '$').                 *)
(***************************************************************************)

Text(t) == [var |-> FALSE, t |-> t]
Var(n)  == [var |-> TRUE,  t |-> n]

\* Templates['defaultlicense']: a plain string, not a Template
\* (the text before and after the year, which is datetime.now().year)
Templates_defaultlicense(year) ==
  "\n"
  \o "Copyright "
  \o year
  \o " <+YOU OR YOUR COMPANY+>.\n"
  \o "\n"
  \o "This is free software; you can redistribute it and/or modify\n"
  \o "it under the terms of the GNU General Public License as published by\n"
  \o "the Free Software Foundation; either version 3, or (at your option)\n"
  \o "any later version.\n"
  \o "\n"
  \o "This software is distributed in the hope that it will be useful,\n"
  \o "but WITHOUT ANY WARRANTY; without even the implied warranty of\n"
  \o "MERCHANTABILITY or FITNESS FOR A PARTICULAR PURPOSE.  See the\n"
  \o "GNU General Public License for more details.\n"
  \o "\n"
  \o "You should have received a copy of the GNU General Public License\n"
  \o "along with this software; see the file COPYING.  If not, write to\n"
  \o "the Free Software Foundation, Inc., 51 Franklin Street,\n"
  \o "Boston, MA 02110-1301, USA.\n"

\* Templates['work_h']: a plain string, not a Template
Templates_work_h ==
  "\n"
  \o "\tint work (int noutput_items,\n"
  \o "\t\tgr_vector_const_void_star &input_items,\n"
  \o "\t\tgr_vector_void_star &output_items);"

\* Templates['generalwork_h']: a plain string, not a Template
Templates_generalwork_h ==
  "\n"
  \o "  int general_work (int noutput_items,\n"
  \o "\t\t    gr_vector_int &ninput_items,\n"
  \o "\t\t    gr_vector_const_void_star &input_items,\n"
  \o "\t\t    gr_vector_void_star &output_items);"

\* Templates['block_h']
Templates_block_h ==
  << Text("/* -*- c++ -*- */\n"),
     Var("license"),
     Text("\n"),
     Text("#ifndef INCLUDED_"),
     Var("fullblocknameupper"),
     Text("_H\n"),
     Text("#define INCLUDED_"),
     Var("fullblocknameupper"),
     Text("_H\n"),
     Text("\n"),
     Text("#include <"),
     Var("modname"),
     Text("_api.h>\n"),
     Text("#include <"),
     Var("grblocktype"),
     Text(".h>\n"),
     Text("\n"),
     Text("class "),
     Var("fullblockname"),
     Text(";\n"),
     Text("typedef boost::shared_ptr<"),
     Var("fullblockname"),
     Text("> "),
     Var("fullblockname"),
     Text("_sptr;\n"),
     Text("\n"),
     Var("modnameupper"),
     Text("_API "),
     Var("fullblockname"),
     Text("_sptr "),
     Var("modname"),
     Text("_make_"),
     Var("blockname"),
     Text(" ("),
     Var("arglist"),
     Text(");\n"),
     Text("\n"),
     Text("/*!\n"),
     Text(" * \\brief <+description+>\n"),
     Text(" *\n"),
     Text(" */\n"),
     Text("class "),
     Var("modnameupper"),
     Text("_API "),
     Var("fullblockname"),
     Text(" : public "),
     Var("grblocktype"),
     Text("\n"),
     Text("{\n"),
     Text("\tfriend "),
     Var("modnameupper"),
     Text("_API "),
     Var("fullblockname"),
     Text("_sptr "),
     Var("modname"),
     Text("_make_"),
     Var("blockname"),
     Text(" ("),
     Var("argliststripped"),
     Text(");\n"),
     Text("\n"),
     Text("\t"),
     Var("fullblockname"),
     Text(" ("),
     Var("argliststripped"),
     Text(");\n"),
     Text("\n"),
     Text(" public:\n"),
     Text("\t~"),
     Var("fullblockname"),
     Text(" ();\n"),
     Text("\n"),
     Var("workfunc"),
     Text("\n"),
     Text("};\n"),
     Text("\n"),
     Text("#endif /* INCLUDED_"),
     Var("fullblocknameupper"),
     Text("_H */\n"),
     Text("\n") >>

\* Templates['work_cpp']: a plain string, not a Template
Templates_work_cpp ==
  "work (int noutput_items,\n"
  \o "\t\t\tgr_vector_const_void_star &input_items,\n"
  \o "\t\t\tgr_vector_void_star &output_items)\n"
  \o "{\n"
  \o "\tconst float *in = (const float *) input_items[0];\n"
  \o "\tfloat *out = (float *) output_items[0];\n"
  \o "\n"
  \o "\t// Do <+signal processing+>\n"
  \o "\n"
  \o "\t// Tell runtime system how many output items we produced.\n"
  \o "\treturn noutput_items;\n"
  \o "}\n"

\* Templates['generalwork_cpp']: a plain string, not a Template
Templates_generalwork_cpp ==
  "general_work (int noutput_items,\n"
  \o "\t\t\t       gr_vector_int &ninput_items,\n"
  \o "\t\t\t       gr_vector_const_void_star &input_items,\n"
  \o "\t\t\t       gr_vector_void_star &output_items)\n"
  \o "{\n"
  \o "  const float *in = (const float *) input_items[0];\n"
  \o "  float *out = (float *) output_items[0];\n"
  \o "\n"
  \o "  // Tell runtime system how many input items we consumed on\n"
  \o "  // each input stream.\n"
  \o "  consume_each (noutput_items);\n"
  \o "\n"
  \o "  // Tell runtime system how many output items we produced.\n"
  \o "  return noutput_items;\n"
  \o "}\n"

\* Templates['block_cpp']
Templates_block_cpp ==
  << Text("/* -*- c++ -*- */\n"),
     Var("license"),
     Text("\n"),
     Text("#ifdef HAVE_CONFIG_H\n"),
     Text("#include \"config.h\"\n"),
     Text("#endif\n"),
     Text("\n"),
     Text("#include <gr_io_signature.h>\n"),
     Text("#include <"),
     Var("fullblockname"),
     Text(".h>\n"),
     Text("\n"),
     Text("\n"),
     Var("fullblockname"),
     Text("_sptr\n"),
     Var("modname"),
     Text("_make_"),
     Var("blockname"),
     Text(" ("),
     Var("argliststripped"),
     Text(")\n"),
     Text("{\n"),
     Text("\treturn "),
     Var("sptr"),
     Text(" (new "),
     Var("fullblockname"),
     Text(" ("),
     Var("arglistnotypes"),
     Text("));\n"),
     Text("}\n"),
     Text("\n"),
     Text("\n"),
     Var("fullblockname"),
     Text("::"),
     Var("fullblockname"),
     Text(" ("),
     Var("argliststripped"),
     Text(")\n"),
     Text("\t: "),
     Var("grblocktype"),
     Text(" (\""),
     Var("blockname"),
     Text("\",\n"),
     Text("\t\tgr_make_io_signature ("),
     Var("inputsig"),
     Text("),\n"),
     Text("\t\tgr_make_io_signature ("),
     Var("outputsig"),
     Text(")"),
     Var("decimation"),
     Text(")\n"),
     Text("{\n"),
     Var("constructorcontent"),
     Text("}\n"),
     Text("\n"),
     Text("\n"),
     Var("fullblockname"),
     Text("::~"),
     Var("fullblockname"),
     Text(" ()\n"),
     Text("{\n"),
     Text("}\n") >>

\* Templates['block_cpp_workcall']
Templates_block_cpp_workcall ==
  << Text("\n"),
     Text("\n"),
     Text("int\n"),
     Var("fullblockname"),
     Text("::"),
     Var("workfunc"),
     Text("\n") >>

\* Templates['block_cpp_hierconstructor']: a plain string, not a Template
Templates_block_cpp_hierconstructor ==
  "\n"
  \o "\tconnect(self(), 0, d_firstblock, 0);\n"
  \o "\t// connect other blocks\n"
  \o "\tconnect(d_lastblock, 0, self(), 0);\n"

\* Templates['qa_cmakeentry']
Templates_qa_cmakeentry ==
  << Text("\n"),
     Text("add_executable("),
     Var("basename"),
     Text(" "),
     Var("filename"),
     Text(")\n"),
     Text("target_link_libraries("),
     Var("basename"),
     Text(" gnuradio-"),
     Var("modname"),
     Text(" ${Boost_LIBRARIES})\n"),
     Text("GR_ADD_TEST("),
     Var("basename"),
     Text(" "),
     Var("basename"),
     Text(")\n") >>

\* Templates['qa_cpp']
Templates_qa_cpp ==
  << Text("/* -*- c++ -*- */\n"),
     Var("license"),
     Text("\n"),
     Text("\n"),
     Text("#include <boost/test/unit_test.hpp>\n"),
     Text("\n"),
     Text("BOOST_AUTO_TEST_CASE(qa_"),
     Var("fullblockname"),
     Text("_t1){\n"),
     Text("    BOOST_CHECK_EQUAL(2 + 2, 4);\n"),
     Text("    // BOOST_* test macros <+here+>\n"),
     Text("}\n"),
     Text("\n"),
     Text("BOOST_AUTO_TEST_CASE(qa_"),
     Var("fullblockname"),
     Text("_t2){\n"),
     Text("    BOOST_CHECK_EQUAL(2 + 2, 4);\n"),
     Text("    // BOOST_* test macros <+here+>\n"),
     Text("}\n"),
     Text("\n") >>

\* Templates['qa_python']
Templates_qa_python ==
  << Text("#!/usr/bin/env python\n"),
     Var("license"),
     Text("\n"),
     Text("#\n"),
     Text("\n"),
     Text("from gnuradio import gr, gr_unittest\n"),
     Text("import "),
     Var("modname"),
     Var("swig"),
     Text("\n"),
     Text("\n"),
     Text("class qa_"),
     Var("blockname"),
     Text(" (gr_unittest.TestCase):\n"),
     Text("\n"),
     Text("    def setUp (self):\n"),
     Text("        self.tb = gr.top_block ()\n"),
     Text("\n"),
     Text("    def tearDown (self):\n"),
     Text("        self.tb = None\n"),
     Text("\n"),
     Text("    def test_001_t (self):\n"),
     Text("        # set up fg\n"),
     Text("        self.tb.run ()\n"),
     Text("        # check data\n"),
     Text("\n"),
     Text("\n"),
     Text("if __name__ == '__main__':\n"),
     Text("    gr_unittest.main ()\n") >>

\* Templates['hier_python']
Templates_hier_python ==
  << Var("license"),
     Text("\n"),
     Text("\n"),
     Text("from gnuradio import gr\n"),
     Text("\n"),
     Text("class "),
     Var("blockname"),
     Text("(gr.hier_block2):\n"),
     Text("    def __init__(self, "),
     Var("arglist"),
     Text("):\n"),
     Text("    \"\"\"\n"),
     Text("    docstring\n"),
     Text("\t\"\"\"\n"),
     Text("        gr.hier_block2.__init__(self, \""),
     Var("blockname"),
     Text("\",\n"),
     Text("\t\t\t\tgr.io_signature("),
     Var("inputsig"),
     Text("),  # Input signature\n"),
     Text("\t\t\t\tgr.io_signature("),
     Var("outputsig"),
     Text(")) # Output signature\n"),
     Text("\n"),
     Text("        # Define blocks\n"),
     Text("        self.connect()\n"),
     Text("\n") >>

\* Templates['impl_h']
Templates_impl_h ==
  << Text("/* -*- c++ -*- */\n"),
     Var("license"),
     Text("\n"),
     Text("#ifndef INCLUDED_QA_"),
     Var("fullblocknameupper"),
     Text("_H\n"),
     Text("#define INCLUDED_QA_"),
     Var("fullblocknameupper"),
     Text("_H\n"),
     Text("\n"),
     Text("class "),
     Var("fullblockname"),
     Text("\n"),
     Text("{\n"),
     Text(" public:\n"),
     Text("\t"),
     Var("fullblockname"),
     Text("("),
     Var("arglist"),
     Text(");\n"),
     Text("\t~"),
     Var("fullblockname"),
     Text("();\n"),
     Text("\n"),
     Text("\n"),
     Text(" private:\n"),
     Text("\n"),
     Text("};\n"),
     Text("\n"),
     Text("#endif /* INCLUDED_"),
     Var("fullblocknameupper"),
     Text("_H */\n"),
     Text("\n") >>

\* Templates['impl_cpp']
Templates_impl_cpp ==
  << Text("/* -*- c++ -*- */\n"),
     Var("license"),
     Text("\n"),
     Text("\n"),
     Text("#include <"),
     Var("fullblockname"),
     Text(".h>\n"),
     Text("\n"),
     Text("\n"),
     Var("fullblockname"),
     Text("::"),
     Var("fullblockname"),
     Text("("),
     Var("argliststripped"),
     Text(")\n"),
     Text("{\n"),
     Text("}\n"),
     Text("\n"),
     Text("\n"),
     Var("fullblockname"),
     Text("::~"),
     Var("fullblockname"),
     Text("()\n"),
     Text("{\n"),
     Text("}\n") >>

\* Templates['grc_xml']
Templates_grc_xml ==
  << Text("<?xml version=\"1.0\"?>\n"),
     Text("<block>\n"),
     Text("  <name>"),
     Var("blockname"),
     Text("</name>\n"),
     Text("  <key>"),
     Var("fullblockname"),
     Text("</key>\n"),
     Text("  <category>"),
     Var("modname"),
     Text("</category>\n"),
     Text("  <import>import "),
     Var("modname"),
     Text("</import>\n"),
     Text("  <make>"),
     Var("modname"),
     Text("."),
     Var("blockname"),
     Text("("),
     Var("arglistnotypes"),
     Text(")</make>\n"),
     Text("  <!-- Make one 'param' node for every Parameter you want settable from the GUI.\n"),
     Text("       Sub-nodes:\n"),
     Text("       * name\n"),
     Text("       * key (makes the value accessible as $keyname, e.g. in the make node)\n"),
     Text("       * type -->\n"),
     Text("  <param>\n"),
     Text("    <name>...</name>\n"),
     Text("    <key>...</key>\n"),
     Text("    <type>...</type>\n"),
     Text("  </param>\n"),
     Text("\n"),
     Text("  <!-- Make one 'sink' node per input. Sub-nodes:\n"),
     Text("       * name (an identifier for the GUI)\n"),
     Text("       * type\n"),
     Text("       * vlen\n"),
     Text("       * optional (set to 1 for optional inputs) -->\n"),
     Text("  <sink>\n"),
     Text("    <name>in</name>\n"),
     Text("    <type><!-- e.g. int, real, complex, byte, short, xxx_vector, ...--></type>\n"),
     Text("  </sink>\n"),
     Text("\n"),
     Text("  <!-- Make one 'source' node per output. Sub-nodes:\n"),
     Text("       * name (an identifier for the GUI)\n"),
     Text("       * type\n"),
     Text("       * vlen\n"),
     Text("       * optional (set to 1 for optional inputs) -->\n"),
     Text("  <source>\n"),
     Text("    <name>out</name>\n"),
     Text("    <type><!-- e.g. int, real, complex, byte, short, xxx_vector, ...--></type>\n"),
     Text("  </source>\n"),
     Text("</block>\n") >>

\* Templates['usage']: a plain string, not a Template
Templates_usage ==
  "\n"
  \o "gr_modtool.py <command> [options] -- Run <command> with the given options.\n"
  \o "gr_modtool.py help -- Show a list of commands.\n"
  \o "gr_modtool.py help <command> -- Shows the help for a given command. "

\* The keys of the Templates dictionary.
TemplateIds ==
  {"defaultlicense", "work_h", "generalwork_h", "block_h", "work_cpp",
   "generalwork_cpp", "block_cpp", "block_cpp_workcall",
   "block_cpp_hierconstructor", "qa_cmakeentry", "qa_cpp", "qa_python",
   "hier_python", "impl_h", "impl_cpp", "grc_xml", "usage"}

\* The entries of Templates that are Template objects.
TemplateObjects ==
  [block_h            |-> Templates_block_h,
   block_cpp          |-> Templates_block_cpp,
   block_cpp_workcall |-> Templates_block_cpp_workcall,
   qa_cmakeentry      |-> Templates_qa_cmakeentry,
   qa_cpp             |-> Templates_qa_cpp,
   qa_python          |-> Templates_qa_python,
   hier_python        |-> Templates_hier_python,
   impl_h             |-> Templates_impl_h,
   impl_cpp           |-> Templates_impl_cpp,
   grc_xml            |-> Templates_grc_xml]

\* What a function of the program gives: a text, or the exception raised.
Ok(text)   == [ok |-> TRUE,  error |-> "",    text |-> text]
Raised(ex) == [ok |-> FALSE, error |-> ex,    text |-> ""]

\* Template.substitute(kwargs): KeyError when a placeholder has no value.
substitute(segs, kwargs) ==
  IF \E i \in 1..Len(segs) : segs[i].var /\ segs[i].t \notin DOMAIN kwargs
    THEN Raised("KeyError")
    ELSE Ok(Concat([i \in 1..Len(segs) |->
                      IF segs[i].var THEN kwargs[segs[i].t] ELSE segs[i].t],
                   1, Len(segs)))

\* Templates[tpl_id].substitute(kwargs): KeyError for an unknown id,
\* AttributeError for an entry that is a plain string.
substitute_id(tpl_id, kwargs) ==
  IF tpl_id \notin TemplateIds THEN Raised("KeyError")
  ELSE IF tpl_id \notin DOMAIN TemplateObjects THEN Raised("AttributeError")
  ELSE substitute(TemplateObjects[tpl_id], kwargs)

\* str.splitlines() of a text whose line ends are "\n".
splitlines(text) ==
  IF text = "" THEN <<>>
  ELSE LET parts == Split(text, "\n")
       IN  IF parts[Len(parts)] = "" THEN SubSeq(parts, 1, Len(parts) - 1)
           ELSE parts

\* str_to_fancyc_comment of a text with at least one line.
str_to_fancyc_comment(text) ==
  LET l_lines == splitlines(text)
  IN  "/* " \o l_lines[1] \o "\n"
      \o Concat([i \in 1..Len(l_lines) |->
                   IF i = 1 THEN "" ELSE " * " \o l_lines[i] \o "\n"],
                1, Len(l_lines))
      \o " */\n"

\* str_to_python_comment: re.sub('^', '# ', text, flags=re.MULTILINE), the
\* empty match at the start of the text and after every newline.
str_to_python_comment(text) == "# " \o Join(Split(text, "\n"), "\n# ")

\* str.upper() on ASCII text.
LowerCase == "abcdefghijklmnopqrstuvwxyz"
UpperCase == "ABCDEFGHIJKLMNOPQRSTUVWXYZ"

UpperCh(c) ==
  IF \E i \in 1..Len(LowerCase) : Ch(LowerCase, i) = c
    THEN Ch(UpperCase, CHOOSE i \in 1..Len(LowerCase) : Ch(LowerCase, i) = c)
    ELSE c

upper(str) == Concat([i \in 1..Len(str) |-> UpperCh(Ch(str, i))], 1, Len(str))

\* self.grtypelist
grtypelist ==
  [sync         |-> "gr_sync_block",
   decimator    |-> "gr_sync_decimator",
   interpolator |-> "gr_sync_interpolator",
   general      |-> "gr_block",
   hiercpp      |-> "gr_hier_block2",
   impl         |-> ""]

\* kwargs with kwargs[key] = value
With(kwargs, key, value) == (key :> value) @@ kwargs

\* _get_block_cpp(kwargs)
get_block_cpp(kwargs) ==
  LET bt == kwargs["blocktype"]
      k1 == With(With(With(kwargs, "decimation", ""), "constructorcontent", ""),
                 "sptr", kwargs["fullblockname"] \o "_sptr")
      k2 == IF bt = "decimator" THEN With(k1, "decimation", ", <+decimation+>")
            ELSE IF bt = "interpolator"
              THEN With(k1, "decimation", ", <+interpolation+>")
            ELSE k1
  IN  IF bt = "general"
        THEN LET k3 == With(k2, "workfunc", Templates_generalwork_cpp)
                 a  == substitute(Templates_block_cpp, k3)
                 b  == substitute(Templates_block_cpp_workcall, k3)
             IN  IF ~a.ok THEN a ELSE IF ~b.ok THEN b ELSE Ok(a.text \o b.text)
      ELSE IF bt = "hiercpp"
        THEN substitute(Templates_block_cpp,
               With(With(With(k2, "workfunc", ""),
                         "constructorcontent", Templates_block_cpp_hierconstructor),
                    "sptr", "gnuradio::get_initial_sptr"))
      ELSE LET k3 == With(k2, "workfunc", Templates_work_cpp)
               a  == substitute(Templates_block_cpp, k3)
               b  == substitute(Templates_block_cpp_workcall, k3)
           IN  IF ~a.ok THEN a ELSE IF ~b.ok THEN b ELSE Ok(a.text \o b.text)

\* kwargs['license'] as get_template rewrites it for the template at hand.
LicenseComment(tpl_id, license) ==
  IF tpl_id \in {"block_h", "block_cpp", "qa_h", "qa_cpp", "impl_h", "impl_cpp"}
    THEN str_to_fancyc_comment(license)
  ELSE IF tpl_id \in {"qa_python", "hier_python"}
    THEN str_to_python_comment(license)
  ELSE license

\* kwargs['workfunc'] of the block_h template for a block type.
WorkFuncH(blocktype) ==
  IF blocktype = "general" THEN Templates_generalwork_h
  ELSE IF blocktype = "hiercpp" THEN ""
  ELSE Templates_work_h

\* The entries get_template adds to kwargs before it renders.
Derived(tpl_id, kwargs) ==
  (IF tpl_id = "block_h"
     THEN ("workfunc" :> WorkFuncH(kwargs["blocktype"])) ELSE <<>>)
  @@ (IF tpl_id \in {"block_h", "block_cpp", "qa_h", "qa_cpp", "impl_h",
                      "impl_cpp", "qa_python", "hier_python"}
        THEN ("license" :> LicenseComment(tpl_id, kwargs["license"])) ELSE <<>>)
  @@ ("argliststripped" :> strip_default_values(kwargs["arglist"]))
  @@ ("arglistnotypes" :> strip_arg_types(kwargs["arglist"]))
  @@ ("fullblocknameupper" :> upper(kwargs["fullblockname"]))
  @@ ("modnameupper" :> upper(kwargs["modname"]))
  @@ ("grblocktype" :> grtypelist[kwargs["blocktype"]])
  @@ ("swig" :> IF kwargs["blocktype"] # "hierpython" THEN "_swig" ELSE "")
  @@ kwargs

\* The last lines of get_template, on the extended kwargs.
Render(tpl_id, kwargs) ==
  IF tpl_id = "block_cpp" THEN get_block_cpp(kwargs)
  ELSE substitute_id(tpl_id, kwargs)

\* get_template(tpl_id, **kwargs)
get_template(tpl_id, kwargs) ==
  LET fancy  == tpl_id \in {"block_h", "block_cpp", "qa_h", "qa_cpp",
                            "impl_h", "impl_cpp"}
      python == tpl_id \in {"qa_python", "hier_python"}
      has(k) == k \in DOMAIN kwargs
  IN
  IF (fancy \/ python) /\ ~has("license") THEN Raised("KeyError")
  ELSE IF fancy /\ splitlines(kwargs["license"]) = <<>> THEN Raised("IndexError")
  ELSE IF ~has("arglist") \/ ~has("fullblockname") \/ ~has("modname")
          \/ ~has("blocktype")
    THEN Raised("KeyError")
  ELSE IF kwargs["blocktype"] \notin DOMAIN grtypelist THEN Raised("KeyError")
  ELSE Render(tpl_id, Derived(tpl_id, kwargs))

(***************************************************************************)
(* The command classes, the dispatcher and the help command                *)
(***************************************************************************)

\* The subclasses of ModTool: class name, name, aliases, docstring, and the
\* usage line setup_parser gives the option parser ("" where the usage is
\* left as ModTool.setup_parser sets it, Templates['usage']).  ModTool
\* itself has no name: get_class_dict and print_class_descriptions pass
\* over it with the AttributeError they catch.
ModToolAdd ==
  [class |-> "ModToolAdd", name |-> "add", aliases |-> <<"insert">>,
   doc |-> " Add block to the out-of-tree module. ",
   usage |-> "%prog add [options]. \n Call %prog without any options to run it interactively."]
ModToolRemove ==
  [class |-> "ModToolRemove", name |-> "remove", aliases |-> <<"rm", "del">>,
   doc |-> " Remove block (delete files and remove Makefile entries) ",
   usage |-> "%prog rm [options]. \n Call %prog without any options to run it interactively."]
ModToolNewModule ==
  [class |-> "ModToolNewModule", name |-> "newmod", aliases |-> <<"nm", "create">>,
   doc |-> " Create a new out-of-tree module ", usage |-> ""]
ModToolHelp ==
  [class |-> "ModToolHelp", name |-> "help", aliases |-> <<"h", "?">>,
   doc |-> " Show some help. ", usage |-> ""]

ModToolClasses == {ModToolAdd, ModToolRemove, ModToolNewModule, ModToolHelp}

Range(seq) == {seq[i] : i \in DOMAIN seq}

\* The words that select class c: its name and its aliases.
WordsOf(c) == {c.name} \cup Range(c.aliases)

\* get_class_dict(): command word -> class
get_class_dict ==
  [w \in UNION {WordsOf(c) : c \in ModToolClasses} |->
     CHOOSE c \in ModToolClasses : w \in WordsOf(c)]

\* The scan of the first non-option token alone: what is found is a command
\* only if that token is one.
first_token_from_argv(argv, possible_cmds) ==
  LET stops == {i \in 1..Len(argv) : argv[i] = "" \/ Ch(argv[i], 1) # "-"}
  IN  IF stops = {} \/ argv[Least(stops)] \notin possible_cmds
        THEN [found |-> FALSE, raised |-> "", command |-> ""]
        ELSE [found |-> TRUE, raised |-> "", command |-> argv[Least(stops)]]

\* get_command_from_argv(possible_cmds) on sys.argv = argv.  The loop stops
\* at the first token that is empty (arg[0] raises IndexError) or that does
\* not start with "-" and is in possible_cmds; found is FALSE for None.
get_command_from_argv(argv, possible_cmds) ==
  LET stops == {i \in 1..Len(argv) :
                  \/ argv[i] = ""
                  \/ Ch(argv[i], 1) # "-" /\ argv[i] \in possible_cmds}
  IN  IF stops = {}
        THEN [found |-> FALSE, raised |-> "", command |-> ""]
      ELSE IF argv[Least(stops)] = ""
        THEN [found |-> FALSE, raised |-> "IndexError", command |-> ""]
      ELSE [found |-> TRUE, raised |-> "", command |-> argv[Least(stops)]]

\* n spaces
Spaces(n) == Concat([i \in 1..n |-> " "], 1, n)

\* '%-Ns' % str
PadRight(str, n) == IF Len(str) >= n THEN str ELSE str \o Spaces(n - Len(str))

\* '%-8s  %-12s    %s' % (gvar.name, ','.join(gvar.aliases), gvar.__doc__)
DescriptionLine(c) ==
  PadRight(c.name, 8) \o "  " \o PadRight(Join(c.aliases, ","), 12)
  \o "    " \o c.doc

\* All the classes, help included.
all_classes == ModToolClasses

\* The classes print_class_descriptions lists: the subclasses of ModTool that
\* are not ModToolHelp.
described_classes == {c \in ModToolClasses : c # ModToolHelp}

\* The orders in which the members of a set can be listed.
Orders(S) ==
  {o \in [1..Cardinality(S) -> S] : \A i, j \in DOMAIN o : i # j => o[i] # o[j]}

\* What print_class_descriptions prints when globals() lists the classes in
\* the given order.
print_class_descriptions(order) ==
  <<"Name      Aliases          Description",
    "=====================================================================">>
  \o [i \in DOMAIN order |-> DescriptionLine(order[i])]

\* OptionParser.print_help() of class c's parser: optparse prints the usage
\* and the option groups setup_parser declared.
print_help(c) ==
  "Usage: " \o (IF c.usage = "" THEN Templates_usage ELSE c.usage)
  \o "\n\nOptions of " \o c.class

(***************************************************************************)
(* The file system and the process of a command                            *)
(*                                                                         *)
(* A command object m carries, beside the fields of the Python object, the *)
(* file system (m.fs), the working directory (m.cwd), what the process     *)
(* printed (m.out) and read (m.stdin), the file operations it made (m.log) *)
(* and how it ended (m.status, m.error, m.code).  m.locals holds the local *)
(* variables of the method at work, m.start is the file                    *)
(* system the process started with.  Paths are kept relative to the        *)
(* directory the process started in, which is ".".                         *)
(***************************************************************************)

\* None, and a value that is not None.
None == <<>>
Some(x) == <<x>>
Val(o) == o[1]

\* os.path.join(a, b); "." in front of a path names the same file.
PathJoin(a, b) == IF a = "." THEN b ELSE a \o "/" \o b

\* Where the separators of a path are.
Slashes(path) == {i \in 1..Len(path) : Ch(path, i) = "/"}

\* os.path.dirname and os.path.basename
Dirname(path) ==
  IF Slashes(path) = {} THEN "." ELSE SubSeq(path, 1, Most(Slashes(path)) - 1)
Basename(path) ==
  IF Slashes(path) = {} THEN path
  ELSE SubSeq(path, Most(Slashes(path)) + 1, Len(path))

\* os.path.splitext(name)[0] of a file name: without its last extension.
SplitextBase(name) ==
  LET dots == {i \in 2..Len(name) : Ch(name, i) = "."}
  IN  IF dots = {} THEN name ELSE SubSeq(name, 1, Most(dots) - 1)

\* The file a relative path names in the working directory of m.
Resolve(m, path) == IF path = "." THEN m.cwd ELSE PathJoin(m.cwd, path)

\* os.path.isdir, os.path.isfile, open(path).read()
IsDir(m, path)  == Resolve(m, path) \in m.fs.dirs
IsFile(m, path) == Resolve(m, path) \in DOMAIN m.fs.files
Read(m, path)   == m.fs.files[Resolve(m, path)]

\* os.listdir(path)
listdir(m, path) ==
  {Basename(q) : q \in {q \in (DOMAIN m.fs.files) \cup (m.fs.dirs \ {"."}) :
                          Dirname(q) = Resolve(m, path)}}

Running(m) == m.status = "running"

\* An exception nothing catches, and sys.exit(code).
Raise(m, ex) ==
  IF ~Running(m) THEN m
  ELSE [m EXCEPT !.status = "raised", !.error = ex, !.code = 1, !.pc = "done"]
Exit(m, code) ==
  IF ~Running(m) THEN m
  ELSE [m EXCEPT !.status = "exited", !.code = code, !.pc = "done"]

\* print msg
Say(m, msg) == IF ~Running(m) THEN m ELSE [m EXCEPT !.out = Append(@, msg)]

\* raw_input(prompt) when the user types answer
Ask(m, prompt, answer) ==
  IF ~Running(m) THEN m
  ELSE [m EXCEPT !.out = Append(@, prompt),
                 !.stdin = Append(@, [prompt |-> prompt, answer |-> answer])]

\* The text of a file becomes text; the file is made if it is not there.
Put(m, path, text) ==
  [m EXCEPT !.fs.files = (Resolve(m, path) :> text) @@ @,
            !.log = Append(@, [op |-> "write", path |-> Resolve(m, path)])]

\* open(path, 'w') or open(path, 'a') fails with IOError where there is no
\* such directory, or where path is a directory.
CanOpenForWriting(m, path) ==
  /\ Dirname(Resolve(m, path)) \in m.fs.dirs
  /\ Resolve(m, path) \notin m.fs.dirs

\* open(path, 'w').write(text)
WriteFile(m, path, text) ==
  IF ~Running(m) THEN m
  ELSE IF ~CanOpenForWriting(m, path) THEN Raise(m, "IOError")
  ELSE Put(m, path, text)

\* open(path, 'a').write(text)
AppendFile(m, path, text) ==
  IF ~Running(m) THEN m
  ELSE IF ~CanOpenForWriting(m, path) THEN Raise(m, "IOError")
  ELSE Put(m, path, (IF IsFile(m, path) THEN Read(m, path) ELSE "") \o text)

\* os.unlink(path) of a file that is there
Unlink(m, path) ==
  IF ~Running(m) THEN m
  ELSE [m EXCEPT
          !.fs.files = [q \in (DOMAIN @) \ {Resolve(m, path)} |-> @[q]],
          !.log = Append(@, [op |-> "unlink", path |-> Resolve(m, path)])]

\* os.chmod(path, 0755) of a file that is there
Chmod(m, path) ==
  IF ~Running(m) THEN m
  ELSE [m EXCEPT !.log = Append(@, [op |-> "chmod", path |-> Resolve(m, path)])]

(***************************************************************************)
(* ModTool                                                                 *)
(***************************************************************************)

\* self._subdirs
Subdirs == {"lib", "include", "python", "swig", "grc"}

\* The values setup_parser declares for the options nobody gave (those of
\* the add and remove parsers included).
DefaultOptions ==
  [directory |-> ".", module_name |-> None, block_name |-> None,
   skip_lib |-> FALSE, skip_swig |-> FALSE, skip_python |-> FALSE,
   skip_grc |-> TRUE,
   block_type |-> None, license_file |-> None, argument_list |-> None,
   add_python_qa |-> None, add_cpp_qa |-> None, skip_cmakefiles |-> FALSE,
   pattern |-> None, yes |-> FALSE]

\* A dictionary with no key.
EmptyDict == [k \in {} |-> ""]

\* ModTool.__init__ in a process with the given options and positional
\* arguments (what parse_args makes of sys.argv[1:]) and the given file
\* system.
ModTool_init(class, options, args, filesystem) ==
  [class |-> class, pc |-> "setup", options |-> options, args |-> args,
   info |-> EmptyDict,
   has_subdirs  |-> [d \in Subdirs |-> FALSE],
   skip_subdirs |-> [d \in Subdirs |-> FALSE],
   add_cc_qa |-> FALSE, add_py_qa |-> FALSE,
   dir |-> None,
   fs |-> filesystem, start |-> filesystem, cwd |-> ".",
   out |-> <<>>, stdin |-> <<>>, log |-> <<>>, locals |-> <<>>,
   status |-> "running", error |-> "", code |-> 0]

\* [a-zA-Z0-9_], and [a-zA-Z0-9-_]
Alnum == LowerCase \o UpperCase \o "0123456789"
IdentChars == {Ch(Alnum, i) : i \in 1..Len(Alnum)} \cup {"_"}
NameChars  == IdentChars \cup {"-"}

\* What a function that returns a string gives: the string, or the
\* exception raised.
Got(str)    == [ok |-> TRUE,  error |-> "", text |-> str]
Failed(ex)  == [ok |-> FALSE, error |-> ex, text |-> ""]

\* re.search(regexp, text).group(1).strip() where the group is item g of
\* the pattern and m the match: None has no attribute 'group'.
Group1Stripped(text, m, g) ==
  IF m = <<>> THEN Failed("AttributeError")
  ELSE Got(Strip(Group(text, m, g, g)))

\* The patterns of get_modname, and the item that is group 1 in each.
projectname_re ==
  Lit("projectname") \o <<Star(In(WS))>> \o Lit("=")
    \o <<Star(In(WS)), Plus(In(NameChars)), Dollar>>
project_re ==
  Lit("project") \o <<Star(In(WS))>> \o Lit("(") \o <<Star(In(WS))>>
    \o Lit("gr-") \o <<Plus(In(NameChars)), Star(In(WS))>> \o Lit("CXX")

\* get_modname(), in the working directory of m
get_modname(m) ==
  IF IsFile(m, "gnuradio.project")
    THEN Group1Stripped(Read(m, "gnuradio.project"),
           Search(projectname_re, Read(m, "gnuradio.project")), 5)
  ELSE IF ~IsFile(m, "CMakeLists.txt") THEN Failed("IOError")
  ELSE Group1Stripped(Read(m, "CMakeLists.txt"),
         Search(project_re, Read(m, "CMakeLists.txt")), 6)

\* _check_directory after os.listdir and os.chdir: whether the directory
\* has a CMakeLists.txt with find_package(GnuradioCore), which is what the
\* method returns (self._has_subdirs.values() is a list of five, never
\* empty).
has_makefile(m) ==
  /\ IsFile(m, "CMakeLists.txt")
  /\ Contains(Read(m, "CMakeLists.txt"), "find_package(GnuradioCore)")

\* The directories among the entries of the working directory.
ListedDirs(m) == {f \in listdir(m, ".") : IsDir(m, f)}

\* _check_directory: the loop over the entries of the directory.
WithSubdirs(m) ==
  [m EXCEPT
     !.has_subdirs  = [d \in Subdirs |-> d \in ListedDirs(m)],
     !.skip_subdirs = [d \in Subdirs \cup ListedDirs(m) |->
                         IF d \in Subdirs THEN m.skip_subdirs[d] ELSE TRUE]]

\* os.chdir(directory), with self._dir = options.directory
Chdir(m) ==
  [m EXCEPT !.dir = Some(m.options.directory),
            !.cwd = Resolve(m, m.options.directory)]

\* A setup that is content with a directory that can be read and entered.
EnteredDirectory(m) ==
  IF ~IsDir(m, m.options.directory)
    THEN Exit(Say(Say([m EXCEPT !.dir = Some(m.options.directory)],
                      "Can't read or chdir to directory "
                        \o m.options.directory \o "."),
                  "No GNU Radio module found in the given directory. Quitting."),
              1)
  ELSE Say(WithSubdirs(Chdir(m)),
           "Operating in directory " \o m.options.directory)

\* ModTool.setup up to 'Operating in directory'
CheckedDirectory(m) ==
  IF ~IsDir(m, m.options.directory)
    THEN Exit(Say(Say([m EXCEPT !.dir = Some(m.options.directory)],
                      "Can't read or chdir to directory "
                        \o m.options.directory \o "."),
                  "No GNU Radio module found in the given directory. Quitting."),
              1)
  ELSE IF ~has_makefile(Chdir(m))
    THEN Exit(Say(WithSubdirs(Chdir(m)),
                  "No GNU Radio module found in the given directory. Quitting."),
              1)
  ELSE Say(WithSubdirs(Chdir(m)),
           "Operating in directory " \o m.options.directory)

\* if options.skip_<subdir>: print, self._skip_subdirs[subdir] = True
ForceSkip(m, subdir, option) ==
  IF ~Running(m) \/ ~option THEN m
  ELSE [Say(m, "Force-skipping '" \o subdir \o "'.")
          EXCEPT !.skip_subdirs[subdir] = TRUE]

\* self._info[key] = value
SetInfo(m, key, value) ==
  IF ~Running(m) THEN m ELSE [m EXCEPT !.info = (key :> value) @@ @]

\* self._info['modname'] = ...; print; the name is name.text, or the
\* exception of get_modname ends the process.
GotModname(m, name) ==
  IF ~Running(m) THEN m
  ELSE IF ~name.ok THEN Raise(m, name.error)
  ELSE Say(SetInfo(m, "modname", name.text),
           "GNU Radio module name identified: " \o name.text)

\* ModTool.setup
ModTool_setup(m) ==
  SetInfo(
    GotModname(
      ForceSkip(
        ForceSkip(
          ForceSkip(CheckedDirectory(m), "lib", m.options.skip_lib),
          "python", m.options.skip_python),
        "swig", m.options.skip_swig),
      IF m.options.module_name # None THEN Got(Val(m.options.module_name))
      ELSE get_modname(Chdir(m))),
    "blockname", m.options.block_name)

(***************************************************************************)
(* ModToolAdd                                                              *)
(***************************************************************************)

\* ModToolAdd._block_types, and str() of that tuple
block_types ==
  {"sink", "source", "sync", "decimator", "interpolator", "general",
   "hiercpp", "hierpython", "impl"}
block_types_str ==
  "('sink', 'source', 'sync', 'decimator', 'interpolator', 'general', "
  \o "'hiercpp', 'hierpython', 'impl')"

\* The signature ModToolAdd.__init__ puts in self._info.
DefaultSig == "<+MIN_IN+>, <+MAX_IN+>, sizeof (<+float+>)"

\* ModToolAdd.__init__
ModToolAdd_init(options, args, filesystem) ==
  [ModTool_init("ModToolAdd", options, args, filesystem)
     EXCEPT !.info = ("inputsig" :> DefaultSig) @@ ("outputsig" :> DefaultSig)]

\* datetime.now().year as Templates['defaultlicense'] has it
CurrentYear == "2012"

\* The loop of raw_input("Enter code type: ") from line i of what the user
\* types on: it ends with the first line that is a block type.
RECURSIVE AskBlockType(_, _, _)
AskBlockType(m, typed, i) ==
  IF typed[i] \in block_types
    THEN SetInfo(Ask(m, "Enter code type: ", typed[i]), "blocktype", typed[i])
    ELSE AskBlockType(Say(Ask(m, "Enter code type: ", typed[i]),
                          "Must be one of " \o block_types_str),
                      typed, i + 1)

\* 'Code is of type: ' + self._info['blocktype']
SayBlockType(m) == Say(m, "Code is of type: " \o m.info["blocktype"])

\* lines 671-677
SetBlockType(m, typed) ==
  IF ~Running(m) THEN m
  ELSE IF m.options.block_type # None
    THEN SayBlockType(SetInfo(m, "blocktype", Val(m.options.block_type)))
  ELSE SayBlockType(AskBlockType(m, typed, 1))

\* lines 679-682
CheckRelevantSubdir(m) ==
  IF ~Running(m) THEN m
  ELSE IF \/ ~m.has_subdirs["lib"] /\ m.info["blocktype"] # "hierpython"
          \/ ~m.has_subdirs["python"] /\ m.info["blocktype"] = "hierpython"
    THEN Exit(Say(m, "Can't do anything if the relevant subdir is missing. See ya."),
              1)
  ELSE m

\* lines 684-688: the block name of the option, else the second positional
\* argument, else what the user types.
ResolveBlockName(m, answer) ==
  IF ~Running(m) THEN m
  ELSE IF m.info["blockname"] # None
    THEN SetInfo(m, "blockname", Val(m.info["blockname"]))
  ELSE IF Len(m.args) >= 2 THEN SetInfo(m, "blockname", m.args[2])
  ELSE SetInfo(Ask(m, "Enter name of block/code (without module name prefix): ",
                   answer),
               "blockname", answer)

\* re.match('[a-zA-Z0-9_]+', name) is not None
MatchesIdentifier(name) == MatchFrom(<<Plus(In(IdentChars))>>, 1, name, 1) # <<>>

\* The check of the whole name: every character, and at least one.
WhollyIdentifier(name) ==
  name # "" /\ \A i \in 1..Len(name) : Ch(name, i) \in IdentChars

\* lines 689-698
CheckBlockName(m) ==
  IF ~Running(m) THEN m
  ELSE IF ~MatchesIdentifier(m.info["blockname"])
    THEN Exit(Say(m, "Invalid block name."), 2)
  ELSE Say(
         SetInfo(
           SetInfo(Say(m, "Block/code identifier: " \o m.info["blockname"]),
                   "prefix",
                   m.info["modname"]
                     \o (IF m.info["blocktype"] = "impl" THEN "i" ELSE "")),
           "fullblockname",
           m.info["modname"]
             \o (IF m.info["blocktype"] = "impl" THEN "i" ELSE "")
             \o "_" \o m.info["blockname"]),
         "Full block/code identifier is: "
           \o m.info["modname"]
           \o (IF m.info["blocktype"] = "impl" THEN "i" ELSE "")
           \o "_" \o m.info["blockname"])

\* A choice that looks at LICENSE and LICENCE before the file of the flag.
license_of_module_first(m) ==
  IF IsFile(m, "LICENSE") THEN Read(m, "LICENSE")
  ELSE IF IsFile(m, "LICENCE") THEN Read(m, "LICENCE")
  ELSE IF m.options.license_file # None /\ IsFile(m, Val(m.options.license_file))
    THEN Read(m, Val(m.options.license_file))
  ELSE Templates_defaultlicense(CurrentYear)

\* setup_choose_license
setup_choose_license(m) ==
  IF m.options.license_file # None /\ IsFile(m, Val(m.options.license_file))
    THEN Read(m, Val(m.options.license_file))
  ELSE IF IsFile(m, "LICENSE") THEN Read(m, "LICENSE")
  ELSE IF IsFile(m, "LICENCE") THEN Read(m, "LICENCE")
  ELSE Templates_defaultlicense(CurrentYear)

\* lines 700-705
SetLicenseAndArglist(m, answer) ==
  IF ~Running(m) THEN m
  ELSE IF m.options.argument_list # None
    THEN SetInfo(SetInfo(m, "license", setup_choose_license(m)),
                 "arglist", Val(m.options.argument_list))
  ELSE SetInfo(
         Ask(SetInfo(m, "license", setup_choose_license(m)),
             "Enter valid argument list, including default arguments: ",
             answer),
         "arglist", answer)

\* str.lower() of an answer
lower(str) ==
  Concat([i \in 1..Len(str) |->
            IF \E k \in 1..Len(UpperCase) : Ch(UpperCase, k) = Ch(str, i)
              THEN Ch(LowerCase,
                      CHOOSE k \in 1..Len(UpperCase) : Ch(UpperCase, k) = Ch(str, i))
              ELSE Ch(str, i)],
         1, Len(str))

\* lines 707-710; "x in ('impl')" asks whether x occurs in the string 'impl'
SetPyQa(m, answer) ==
  IF ~Running(m) THEN m
  ELSE IF Contains("impl", m.info["blocktype"]) \/ m.skip_subdirs["python"]
    THEN m
  ELSE IF m.options.add_python_qa # None
    THEN [m EXCEPT !.add_py_qa = Val(m.options.add_python_qa)]
  ELSE [Ask(m, "Add Python QA code? [Y/n] ", answer)
          EXCEPT !.add_py_qa = (lower(answer) # "n")]

\* lines 711-714
SetCcQa(m, answer) ==
  IF ~Running(m) THEN m
  ELSE IF Contains("hierpython", m.info["blocktype"]) \/ m.skip_subdirs["lib"]
    THEN m
  ELSE IF m.options.add_cpp_qa # None
    THEN [m EXCEPT !.add_cc_qa = Val(m.options.add_cpp_qa)]
  ELSE [Ask(m, "Add C++ QA code? [Y/n] ", answer)
          EXCEPT !.add_cc_qa = (lower(answer) # "n")]

\* lines 716-721
NormaliseBlockType(m) ==
  IF ~Running(m) THEN m
  ELSE IF m.info["blocktype"] = "source"
    THEN SetInfo(SetInfo(m, "inputsig", "0, 0, 0"), "blocktype", "sync")
  ELSE IF m.info["blocktype"] = "sink"
    THEN SetInfo(SetInfo(m, "outputsig", "0, 0, 0"), "blocktype", "sync")
  ELSE m

\* ModToolAdd.setup when the user answers the prompts with the lines of
\* answers: typed (block type), blockname, arglist, py_qa and cc_qa.
ModToolAdd_setup(m, answers) ==
  NormaliseBlockType(
    SetCcQa(
      SetPyQa(
        SetLicenseAndArglist(
          CheckBlockName(
            ResolveBlockName(
              CheckRelevantSubdir(SetBlockType(ModTool_setup(m), answers.typed)),
              answers.blockname)),
          answers.arglist),
        answers.py_qa),
      answers.cc_qa))

\* _write_tpl: the file is opened for writing, and so made or emptied,
\* before the template is rendered; what get_template raises ends the
\* process with the file left empty.
Written(m, path, rendered) ==
  IF ~Running(m) THEN m
  ELSE IF ~CanOpenForWriting(m, path) THEN Raise(m, "IOError")
  ELSE IF ~rendered.ok THEN Raise(Put(m, path, ""), rendered.error)
  ELSE Put(m, path, rendered.text)

write_tpl(m, tpl, path, fname) ==
  IF ~Running(m) THEN m
  ELSE Written(Say(m, "Adding file '" \o fname \o "'..."),
               PathJoin(path, fname), get_template(tpl, m.info))

\* ed = CMakeFileEditor(filename, separator); ed.append_value(...);
\* ed.write()
AppendValueIn(m, filename, separator, entry, value, to_ignore) ==
  IF ~Running(m) THEN m
  ELSE IF ~IsFile(m, filename) THEN Raise(m, "IOError")
  ELSE WriteFile(m, filename,
                 append_value(Read(m, filename), separator, entry, value,
                              to_ignore))

\* ed = CMakeFileEditor(filename); ed.remove_double_newlines(); ed.write()
RemoveDoubleNewlinesIn(m, filename) ==
  IF ~Running(m) THEN m
  ELSE IF ~IsFile(m, filename) THEN Raise(m, "IOError")
  ELSE WriteFile(m, filename, remove_double_newlines(Read(m, filename)))

\* fname_h and fname_cc of _run_lib
FnameH(m)  == m.info["fullblockname"] \o ".h"
FnameCc(m) == m.info["fullblockname"] \o ".cc"

\* The block types whose code is a header and a source from the block
\* templates.
CppBlockTypes ==
  {"source", "sink", "sync", "decimator", "interpolator", "general", "hiercpp"}

\* _run_lib, lines 778-784
WriteSources(m) ==
  IF ~Running(m) THEN m
  ELSE IF m.info["blocktype"] \in CppBlockTypes
    THEN write_tpl(write_tpl(m, "block_h", "include", FnameH(m)),
                   "block_cpp", "lib", FnameCc(m))
  ELSE IF m.info["blocktype"] = "impl"
    THEN write_tpl(write_tpl(m, "impl_h", "include", FnameH(m)),
                   "impl_cpp", "lib", FnameCc(m))
  ELSE m

\* Registration that leaves the source file out.
RegisterHeaderOnly(m) ==
  IF ~Running(m) \/ m.options.skip_cmakefiles THEN m
  ELSE AppendValueIn(m, "include/CMakeLists.txt", "\n    ", "install",
                     FnameH(m), DestinationIgnore)

\* _run_lib, lines 785-791
RegisterSources(m) ==
  IF ~Running(m) \/ m.options.skip_cmakefiles THEN m
  ELSE AppendValueIn(
         AppendValueIn(m, "lib/CMakeLists.txt", " ", "add_library", FnameCc(m),
                       NoIgnore),
         "include/CMakeLists.txt", "\n    ", "install", FnameH(m),
         DestinationIgnore)

\* _run_lib, lines 797-804
RegisterCcQa(m) ==
  IF ~Running(m) \/ m.options.skip_cmakefiles THEN m
  ELSE RemoveDoubleNewlinesIn(
         AppendFile(m, "lib/CMakeLists.txt",
                    substitute(Templates_qa_cmakeentry,
                               [basename |-> SplitextBase("qa_" \o FnameCc(m)),
                                filename |-> "qa_" \o FnameCc(m),
                                modname  |-> m.info["modname"]]).text),
         "lib/CMakeLists.txt")

\* _run_lib, lines 793-804
AddCcQa(m) ==
  IF ~Running(m) \/ ~m.add_cc_qa THEN m
  ELSE RegisterCcQa(write_tpl(m, "qa_cpp", "lib", "qa_" \o FnameCc(m)))

\* A _run_lib that adds the test before it registers the sources.
run_lib_test_first(m) ==
  RegisterSources(AddCcQa(WriteSources(Say(m, "Traversing lib..."))))

\* _run_lib
run_lib(m) ==
  AddCcQa(RegisterSources(WriteSources(Say(m, "Traversing lib..."))))

\* _get_mainswigfile: the name is looked for under self._dir, from the
\* working directory the process has changed to.
get_mainswigfile(m) ==
  IF IsFile(m, PathJoin(Val(m.dir),
                        PathJoin("swig", m.info["modname"] \o ".i")))
    THEN Some(m.info["modname"] \o ".i")
  ELSE IF IsFile(m, PathJoin(Val(m.dir),
                             PathJoin("swig", m.info["modname"] \o "_swig.i")))
    THEN Some(m.info["modname"] \o "_swig.i")
  ELSE None

\* re.findall(re, s)[-1] as a match: the last of the non-overlapping
\* matches of a pattern that matches no empty string, <<>> if there is none.
RECURSIVE LastMatchFrom(_, _, _, _)
LastMatchAt(re, s, prev, m) ==
  IF m = <<>> THEN prev ELSE LastMatchFrom(re, s, MEnd(m), m)

LastMatchFrom(re, s, p, prev) == LastMatchAt(re, s, prev, SearchFrom(re, s, p))

LastMatch(re, s) == LastMatchFrom(re, s, 1, <<>>)

\* The text of match m in s.
Matched(s, m) == SubSeq(s, MStart(m), MEnd(m) - 1)

\* append_re_line_sequence once the file is read: last is the last match
\* of linepattern.  str.replace replaces every occurrence of the line.
AppendedAfter(m, filename, newline, last) ==
  IF last = <<>> THEN AppendFile(m, filename, newline)
  ELSE WriteFile(m, filename,
                 SubAll(Lit(Matched(Read(m, filename), last)),
                        Matched(Read(m, filename), last) \o newline \o "\n",
                        Read(m, filename)))

append_re_line_sequence(m, filename, linepattern, newline) ==
  IF ~Running(m) THEN m
  ELSE IF ~IsFile(m, filename) THEN Raise(m, "IOError")
  ELSE AppendedAfter(m, filename, newline,
                     LastMatch(linepattern, Read(m, filename)))

\* '^#include.*\n' and '^GR_SWIG_BLOCK_MAGIC\(.*?\);\s*?\%include.*\s*'
IncludeLine == <<Caret>> \o Lit("#include") \o <<Star(AnyCh)>> \o Lit("\n")
BlockMagicLines ==
  <<Caret>> \o Lit("GR_SWIG_BLOCK_MAGIC(") \o <<StarLazy(AnyCh)>> \o Lit(");")
    \o <<StarLazy(In(WS))>> \o Lit("%include") \o <<Star(AnyCh), Star(In(WS))>>

swig_block_magic_str(m) ==
  "GR_SWIG_BLOCK_MAGIC(" \o m.info["modname"] \o "," \o m.info["blockname"]
    \o ");\n%include \"" \o m.info["fullblockname"] \o ".h\"\n"

\* re.sub(re, repl, s, count=1) where m is the first match of re in s
Replaced(s, m, repl) == IF m = <<>> THEN s ELSE Splice(s, m, repl)

\* _run_swig, lines 828-832: the two substitutions in the empty swig file
WithFirstBlock(m, oldfile) ==
  Replaced(
    Replaced(oldfile, Search(<<Caret>> \o Lit("%{\n"), oldfile),
             "%{\n#include \"" \o m.info["fullblockname"] \o ".h\"\n"),
    Search(<<Caret>> \o Lit("%}\n"),
           Replaced(oldfile, Search(<<Caret>> \o Lit("%{\n"), oldfile),
                    "%{\n#include \"" \o m.info["fullblockname"] \o ".h\"\n")),
    "%}\n\n" \o swig_block_magic_str(m))

\* _run_swig from 'Editing' on, fname_mainswig being the path of the file
EditMainSwig(m, fname_mainswig) ==
  IF ~IsFile(m, fname_mainswig)
    THEN Raise(Say(m, "Editing " \o fname_mainswig \o "..."), "IOError")
  ELSE IF Contains(Read(m, fname_mainswig), "#include")
    THEN append_re_line_sequence(
           append_re_line_sequence(
             Say(m, "Editing " \o fname_mainswig \o "..."),
             fname_mainswig, IncludeLine,
             "#include \"" \o m.info["fullblockname"] \o ".h\""),
           fname_mainswig, BlockMagicLines, swig_block_magic_str(m))
  ELSE WriteFile(Say(m, "Editing " \o fname_mainswig \o "..."),
                 fname_mainswig,
                 WithFirstBlock(m, Read(m, fname_mainswig)))

run_swig(m) ==
  IF ~Running(m) THEN m
  ELSE IF get_mainswigfile(m) = None
    THEN Say(Say(m, "Traversing swig..."), "Warning: No main swig file found.")
  ELSE EditMainSwig(Say(m, "Traversing swig..."),
                    PathJoin("swig", Val(get_mainswigfile(m))))

\* fname_py_qa of _run_python_qa
FnamePyQa(m) == "qa_" \o m.info["fullblockname"] \o ".py"

run_python_qa(m) ==
  AppendFile(
    Say(Chmod(write_tpl(Say(m, "Traversing python..."),
                        "qa_python", "python", FnamePyQa(m)),
              PathJoin("python", FnamePyQa(m))),
        "Editing python/CMakeLists.txt..."),
    "python/CMakeLists.txt",
    "GR_ADD_TEST(qa_" \o m.info["blockname"]
      \o " ${PYTHON_EXECUTABLE} ${CMAKE_CURRENT_SOURCE_DIR}/" \o FnamePyQa(m)
      \o ")\n")

run_python_hierblock(m) ==
  AppendValueIn(
    write_tpl(Say(m, "Traversing python..."), "hier_python", "python",
              m.info["blockname"] \o ".py"),
    "python/CMakeLists.txt", " ", "GR_PYTHON_INSTALL",
    m.info["blockname"] \o ".py", DestinationIgnore)

run_grc(m) ==
  AppendValueIn(
    Say(write_tpl(Say(m, "Traversing grc..."), "grc_xml", "grc",
                  m.info["fullblockname"] \o ".xml"),
        "Editing grc/CMakeLists.txt..."),
    "grc/CMakeLists.txt", "\n    ", "install",
    m.info["fullblockname"] \o ".xml", DestinationIgnore)

\* has_swig of ModToolAdd.run
has_swig(m) ==
  /\ m.info["blocktype"] \in CppBlockTypes
  /\ m.has_subdirs["swig"]
  /\ ~m.skip_subdirs["swig"]

\* ModToolAdd.run, step by step: lines 747-748, 749-758, 759-760, 761-762
\* and 763-765.
RunLib(m) ==
  IF /\ Running(m)
     /\ m.info["blocktype"] # "hierpython"
     /\ ~m.skip_subdirs["lib"]
    THEN run_lib(m) ELSE m

RunSwig(m) == IF Running(m) /\ has_swig(m) THEN run_swig(m) ELSE m

RunPythonQa(m) == IF Running(m) /\ m.add_py_qa THEN run_python_qa(m) ELSE m

RunPythonHierblock(m) ==
  IF Running(m) /\ m.info["blocktype"] = "hierpython"
    THEN run_python_hierblock(m) ELSE m

RunGrc(m) ==
  IF /\ Running(m)
     /\ ~m.skip_subdirs["grc"]
     /\ m.has_subdirs["grc"]
     /\ (m.info["blocktype"] = "hierpython" \/ has_swig(m))
    THEN run_grc(m) ELSE m

ModToolAdd_run(m) ==
  RunGrc(RunPythonHierblock(RunPythonQa(RunSwig(RunLib(m)))))

\* The process goes on at pc unless it has ended; after the last step run()
\* returns and so does main().
GoOn(m, pc) ==
  IF ~Running(m) THEN m
  ELSE IF pc = "done" THEN [m EXCEPT !.pc = "done", !.status = "returned"]
  ELSE [m EXCEPT !.pc = pc]

(***************************************************************************)
(* ModToolRemove                                                           *)
(***************************************************************************)

\* ModToolRemove.__init__ in a process whose standard input holds the lines
\* of input.  The locals are those of run() and _run_subdir: the buffer of
\* the editor, yes, files_deleted and incl_files_deleted.
ModToolRemove_init(options, args, filesystem, input) ==
  [ModTool_init("ModToolRemove", options, args, filesystem)
     EXCEPT !.locals = [input |-> input, cfile |-> "", yes |-> FALSE,
                        files_deleted |-> <<>>, incl_files_deleted |-> <<>>]]

\* raw_input(prompt) on the next line of the standard input: EOFError when
\* there is none.
AskNext(m, prompt) ==
  IF ~Running(m) THEN m
  ELSE IF m.locals.input = <<>>
    THEN Raise([m EXCEPT !.out = Append(@, prompt)], "EOFError")
  ELSE [Ask(m, prompt, Head(m.locals.input))
          EXCEPT !.locals.input = Tail(@)]

\* What the last raw_input returned.
LastAnswer(m) == m.stdin[Len(m.stdin)].answer

\* lines 906-910: the pattern that was typed, '.' for the empty pattern,
\* and the yes of the options
SetPattern(m, pattern) ==
  SetInfo(SetInfo(m, "pattern", IF pattern = "" THEN "." ELSE pattern),
          "yes", m.options.yes)

TypedPattern(m) == IF ~Running(m) THEN m ELSE SetPattern(m, LastAnswer(m))

\* ModToolRemove.setup after ModTool.setup
ChoosePattern(m) ==
  IF ~Running(m) THEN m
  ELSE IF m.options.pattern # None THEN SetPattern(m, Val(m.options.pattern))
  ELSE IF m.options.block_name # None
    THEN SetPattern(m, Val(m.options.block_name))
  ELSE IF Len(m.args) >= 2 THEN SetPattern(m, m.args[2])
  ELSE TypedPattern(
         AskNext(m, "Which blocks do you want to delete? (Regex): "))

ModToolRemove_setup(m) == ChoosePattern(ModTool_setup(m))

\* Whether a file name ends as glob '*' + ext asks; a leading dot hides
\* the file from glob.
GlobMatches(name, ext) ==
  /\ Len(name) >= Len(ext)
  /\ SubSeq(name, Len(name) - Len(ext) + 1, Len(name)) = ext
  /\ Ch(name, 1) # "."

\* glob.glob("%s/%s" % (path, '*' + ext)) as a set
Globbed(m, path, ext) ==
  {PathJoin(path, Basename(q)) :
     q \in {q \in DOMAIN m.fs.files :
              Dirname(q) = Resolve(m, path) /\ GlobMatches(Basename(q), ext)}}

\* The lists _run_subdir may get from its globs: the files of each glob in
\* the order the directory lists them, the globs one after the other.
GlobOrders(m, path, globs) ==
  IF Len(globs) = 1 THEN Orders(Globbed(m, path, globs[1]))
  ELSE {a \o b : a \in Orders(Globbed(m, path, globs[1])),
                 b \in Orders(Globbed(m, path, globs[2]))}

\* files_filt: re.search(pattern, os.path.basename(f)) is not None
FilesFilt(m, files) ==
  SelectSeq(files,
            LAMBDA f : Search(RawRegex(m.info["pattern"]), Basename(f)) # <<>>)

\* _remove_cc_test_case(filename, ed)
remove_cc_test_case(filename, cfile) ==
  IF SubSeq(filename, 1, IF Len(filename) < 2 THEN Len(filename) ELSE 2) # "qa"
    THEN cfile
  ELSE remove_double_newlines(
         delete_entry(
           delete_entry(
             delete_entry(cfile, "add_executable", SplitextBase(filename)),
             "target_link_libraries", SplitextBase(filename)),
           "GR_ADD_TEST", SplitextBase(filename)))

\* for var in makefile_vars: ed.remove_value(var, b)
RECURSIVE RemoveValues(_, _, _, _)
RemoveValues(cfile, makefile_vars, b, i) ==
  IF i > Len(makefile_vars) THEN cfile
  ELSE RemoveValues(remove_value(cfile, makefile_vars[i], b, NoIgnore),
                    makefile_vars, b, i + 1)

\* The buffer of the editor after the entries of a deleted file are taken
\* out.
EditedFor(cfile, b, makefile_vars, cmakeedit_func) ==
  IF cmakeedit_func
    THEN remove_cc_test_case(b, RemoveValues(cfile, makefile_vars, b, 1))
  ELSE RemoveValues(cfile, makefile_vars, b, 1)

\* _run_subdir, lines 988-995: file f of directory path is deleted
DeleteFile(m, path, f, makefile_vars, cmakeedit_func) ==
  IF ~Running(m) THEN m
  ELSE [Say(Unlink(Say(m, "Deleting " \o f \o "."), f),
            "Deleting occurrences of " \o Basename(f) \o " from " \o path
              \o "/CMakeLists.txt...")
          EXCEPT !.locals.files_deleted = Append(@, Basename(f)),
                 !.locals.cfile =
                   EditedFor(@, Basename(f), makefile_vars, cmakeedit_func)]

\* _run_subdir, lines 981-987: what becomes of file f after the answer ans
Answered(m, path, f, ans, makefile_vars, cmakeedit_func) ==
  IF ~Running(m) THEN m
  ELSE IF ans = "q" THEN Exit(m, 0)
  ELSE IF ans = "n" THEN m
  ELSE DeleteFile([m EXCEPT !.locals.yes = @ \/ ans = "a"],
                  path, f, makefile_vars, cmakeedit_func)

\* raw_input(...).lower().strip()
TypedAnswer(m, path, f, makefile_vars, cmakeedit_func) ==
  IF ~Running(m) THEN m
  ELSE Answered(m, path, f, Strip(lower(LastAnswer(m))), makefile_vars,
                cmakeedit_func)

\* _run_subdir: the body of the loop for file f
ForFile(m, path, f, makefile_vars, cmakeedit_func) ==
  IF ~Running(m) THEN m
  ELSE IF m.locals.yes
    THEN DeleteFile(m, path, f, makefile_vars, cmakeedit_func)
  ELSE TypedAnswer(
         AskNext(m, "Really delete " \o f \o "? [Y/n/a/q]: "),
         path, f, makefile_vars, cmakeedit_func)

\* _run_subdir: the loop over files_filt from file i on
RECURSIVE ForFiles(_, _, _, _, _, _)
ForFiles(m, path, files_filt, i, makefile_vars, cmakeedit_func) ==
  IF i > Len(files_filt) THEN m
  ELSE ForFiles(ForFile(m, path, files_filt[i], makefile_vars, cmakeedit_func),
                path, files_filt, i + 1, makefile_vars, cmakeedit_func)

\* ed.write() of the editor of _run_subdir
WriteBuffer(m, path) ==
  IF ~Running(m) THEN m
  ELSE WriteFile(m, PathJoin(path, "CMakeLists.txt"), m.locals.cfile)

\* _run_subdir once files_filt is known
DeleteAmong(m, path, files_filt, makefile_vars, cmakeedit_func) ==
  IF files_filt = <<>>
    THEN [Say(m, "None found.") EXCEPT !.locals.files_deleted = <<>>]
  ELSE IF ~IsFile(m, PathJoin(path, "CMakeLists.txt")) THEN Raise(m, "IOError")
  ELSE WriteBuffer(
         ForFiles([m EXCEPT !.locals.files_deleted = <<>>,
                            !.locals.yes = m.info["yes"],
                            !.locals.cfile =
                              Read(m, PathJoin(path, "CMakeLists.txt"))],
                  path, files_filt, 1, makefile_vars, cmakeedit_func),
         path)

\* _run_subdir(path, globs, makefile_vars, cmakeedit_func) when the globs
\* give the list files
run_subdir(m, path, files, makefile_vars, cmakeedit_func) ==
  IF ~Running(m) THEN m
  ELSE DeleteAmong(Say(m, "Searching for matching files in " \o path \o "/:"),
                   path, FilesFilt(m, files), makefile_vars, cmakeedit_func)

\* remove_pattern_from_file(filename, pattern)
remove_pattern_from_file(m, filename, pattern) ==
  IF ~Running(m) THEN m
  ELSE IF ~IsFile(m, filename) THEN Raise(m, "IOError")
  ELSE WriteFile(m, filename, SubAll(pattern, "", Read(m, filename)))

\* _make_swig_regex(filename)
make_swig_regex(m, filename) ==
  <<Caret, Star(In(WS))>> \o Lit("GR_SWIG_BLOCK_MAGIC(")
    \o RawRegex(m.info["modname"]) \o Lit(",") \o <<Star(In(WS))>>
    \o RawRegex(SubAll(Lit(m.info["modname"] \o "_"), "",
                       SplitextBase(filename)))
    \o Lit(");") \o <<Star(In(WS))>> \o Lit("%include") \o <<Star(In(WS))>>
    \o Lit("\"") \o RawRegex(filename) \o Lit("\"") \o <<Star(In(WS))>>

\* ModToolRemove.run, lines 939-942: the body of the loop for file f of
\* include/; 'swig/' + None is a TypeError.
UnSwig(m, f) ==
  IF ~Running(m) THEN m
  ELSE IF get_mainswigfile(m) = None THEN Raise(m, "TypeError")
  ELSE remove_pattern_from_file(
         remove_pattern_from_file(m, "swig/" \o Val(get_mainswigfile(m)),
                                  make_swig_regex(m, f)),
         "swig/" \o Val(get_mainswigfile(m)),
         Lit("#include \"") \o RawRegex(f) \o Lit("\""))

RECURSIVE UnSwigAll(_, _, _)
UnSwigAll(m, files, i) ==
  IF i > Len(files) THEN m ELSE UnSwigAll(UnSwig(m, files[i]), files, i + 1)

\* ModToolRemove.run, lines 943-946: the body of the loop for file f of
\* python/
UnImport(m, f) ==
  remove_pattern_from_file(m, "python/__init__.py",
    <<Star(AnyCh)>> \o Lit("import") \o <<Star(AnyCh)>>
      \o RawRegex(SubSeq(f, 1, Len(f) - 3)) \o <<Star(AnyCh)>>)

RECURSIVE UnImportAll(_, _, _)
UnImportAll(m, files, i) ==
  IF i > Len(files) THEN m ELSE UnImportAll(UnImport(m, files[i]), files, i + 1)

\* ModToolRemove.run, step by step; files is what the globs of the step
\* give.
RemoveInLib(m, files) ==
  IF Running(m) /\ ~m.skip_subdirs["lib"]
    THEN run_subdir(m, "lib", files, <<"add_library">>, TRUE)
  ELSE m

KeepInclFilesDeleted(m) ==
  IF ~Running(m) THEN m
  ELSE [m EXCEPT !.locals.incl_files_deleted = m.locals.files_deleted]

RemoveInInclude(m, files) ==
  IF Running(m) /\ ~m.skip_subdirs["include"]
    THEN KeepInclFilesDeleted(
           run_subdir(m, "include", files, <<"install">>, TRUE))
  ELSE m

RemoveInSwig(m) ==
  IF Running(m) /\ ~m.skip_subdirs["swig"]
    THEN UnSwigAll(m, m.locals.incl_files_deleted, 1)
  ELSE m

UnImportDeleted(m) ==
  IF ~Running(m) THEN m ELSE UnImportAll(m, m.locals.files_deleted, 1)

RemoveInPython(m, files) ==
  IF Running(m) /\ ~m.skip_subdirs["python"]
    THEN UnImportDeleted(
           run_subdir(m, "python", files, <<"GR_PYTHON_INSTALL">>, FALSE))
  ELSE m

RemoveInGrc(m, files) ==
  IF Running(m) /\ ~m.skip_subdirs["grc"]
    THEN run_subdir(m, "grc", files, <<"install">>, FALSE)
  ELSE m

(***************************************************************************)
(* ModToolNewModule                                                        *)
(***************************************************************************)

\* ModToolNewModule.__init__; input is what the standard input holds.
ModToolNewModule_init(options, args, filesystem, input) ==
  [ModTool_init("ModToolNewModule", options, args, filesystem)
     EXCEPT !.locals = [input |-> input]]

TypedModname(m) ==
  IF ~Running(m) THEN m ELSE SetInfo(m, "modname", LastAnswer(m))

\* ModToolNewModule.setup, lines 2208-2213
ChooseModname(m) ==
  IF m.options.module_name # None
    THEN SetInfo(m, "modname", Val(m.options.module_name))
  ELSE IF Len(m.args) >= 2 THEN SetInfo(m, "modname", m.args[2])
  ELSE TypedModname(AskNext(m, "Name of the new module: "))

\* lines 2214-2216: re.match('[a-zA-Z0-9_]+', modname)
CheckModname(m) ==
  IF ~Running(m) THEN m
  ELSE IF ~MatchesIdentifier(m.info["modname"])
    THEN Exit(Say(m, "Invalid module name."), 2)
  ELSE m

\* lines 2217-2220
ModuleDirectory(m) ==
  IF ~Running(m) THEN m
  ELSE Say([m EXCEPT !.dir = Some(IF m.options.directory = "."
                                    THEN "./gr-" \o m.info["modname"]
                                    ELSE m.options.directory)],
           "Module directory is \""
             \o (IF m.options.directory = "."
                   THEN "./gr-" \o m.info["modname"]
                   ELSE m.options.directory)
             \o "\".")

\* A path without the "./" in front of it.
Normpath(path) ==
  IF Len(path) > 2 /\ SubSeq(path, 1, 2) = "./"
    THEN SubSeq(path, 3, Len(path))
  ELSE path

\* os.stat(path) raises no OSError.
Exists(m, path) == IsFile(m, Normpath(path)) \/ IsDir(m, Normpath(path))

\* lines 2221-2227
CheckAbsent(m) ==
  IF ~Running(m) THEN m
  ELSE IF Exists(m, Val(m.dir))
    THEN Exit(Say(m, "The given directory exists."), 2)
  ELSE m

\* ModToolNewModule.setup
ModToolNewModule_setup(m) ==
  CheckAbsent(ModuleDirectory(CheckModname(ChooseModname(m))))

\* os.mkdir(path) raises no OSError: nothing has the name and its parent is
\* a directory.
CanMkdir(m, path) ==
  /\ ~Exists(m, path)
  /\ IsDir(m, Dirname(Normpath(path)))

\* os.mkdir(self._dir); os.chdir(self._dir)
MkdirChdir(m) ==
  [m EXCEPT !.fs.dirs = @ \cup {Resolve(m, Normpath(Val(m.dir)))},
            !.cwd = Resolve(m, Normpath(Val(m.dir))),
            !.log = Append(@, [op |-> "mkdir",
                               path |-> Resolve(m, Normpath(Val(m.dir)))])]

\* ModToolNewModule.run, lines 2231-2237
Created(m) ==
  IF ~Running(m) THEN m
  ELSE IF ~CanMkdir(m, Val(m.dir))
    THEN Exit(Say(m, "Could not create directory " \o Val(m.dir)
                       \o ". Quitting."), 2)
  ELSE MkdirChdir(m)

CreateDirectory(m) == Created(Say(m, "Creating directory..."))

\* The directories and the files of NEWMOD_TARFILE.
NewmodDirs ==
  {"apps", "cmake", "cmake/Modules",
   "docs", "docs/doxygen", "docs/doxygen/doxyxml",
   "docs/doxygen/doxyxml/example", "docs/doxygen/doxyxml/example/xml", "docs/doxygen/doxyxml/generated",
   "docs/doxygen/other", "grc", "include",
   "lib", "python", "swig"}

NewmodPlainFiles ==
  {"apps/CMakeLists.txt",
   "cmake/Modules/CMakeParseArgumentsCopy.cmake",
   "cmake/Modules/FindGnuradioCore.cmake",
   "cmake/Modules/FindGruel.cmake",
   "cmake/Modules/GrMiscUtils.cmake",
   "cmake/Modules/GrPlatform.cmake",
   "cmake/Modules/GrPython.cmake",
   "cmake/Modules/GrSwig.cmake",
   "cmake/Modules/GrTest.cmake",
   "docs/CMakeLists.txt",
   "docs/doxygen/CMakeLists.txt",
   "docs/doxygen/Doxyfile.swig_doc.in",
   "docs/doxygen/doxyxml/__init__.py",
   "docs/doxygen/doxyxml/base.py",
   "docs/doxygen/doxyxml/doxyindex.py",
   "docs/doxygen/doxyxml/example/Doxyfile",
   "docs/doxygen/doxyxml/example/aadvark.cc",
   "docs/doxygen/doxyxml/example/aadvark.h",
   "docs/doxygen/doxyxml/example/xml/aadvark_8cc.xml",
   "docs/doxygen/doxyxml/example/xml/aadvark_8h.xml",
   "docs/doxygen/doxyxml/example/xml/classAadvark.xml",
   "docs/doxygen/doxyxml/example/xml/combine.xslt",
   "docs/doxygen/doxyxml/example/xml/compound.xsd",
   "docs/doxygen/doxyxml/example/xml/index.xml",
   "docs/doxygen/doxyxml/example/xml/index.xsd",
   "docs/doxygen/doxyxml/generated/__init__.py",
   "docs/doxygen/doxyxml/generated/compound.py",
   "docs/doxygen/doxyxml/generated/compoundsuper.py",
   "docs/doxygen/doxyxml/generated/index.py",
   "docs/doxygen/doxyxml/generated/indexsuper.py",
   "docs/doxygen/doxyxml/text.py",
   "docs/doxygen/swig_doc.py",
   "grc/CMakeLists.txt"}

NewmodTokenFiles ==
  "CMakeLists.txt" :>
      ("project(gr-howto CXX)\n"
         \o "    message(FATAL_ERROR \"Boost required to compile howto\")\n"
         \o "    message(FATAL_ERROR \"Gruel required to compile howto\")\n"
         \o "    message(FATAL_ERROR \"GnuRadio Core required to compile howto\")\n"
         \o "set(GR_HOWTO_INCLUDE_DIRS ${CMAKE_CURRENT_SOURCE_DIR}/include CACHE INTERNAL \"\" FORCE)\n"
         \o "set(GR_HOWTO_SWIG_INCLUDE_DIRS ${CMAKE_CURRENT_SOURCE_DIR}/swig CACHE INTERNAL \"\" FORCE)\n")
  @@
  "docs/doxygen/Doxyfile.in" :>
      ("PROJECT_NAME           = \"GNU Radio's HOWTO Package\"\n")
  @@
  "docs/doxygen/other/group_defs.dox" :>
      (" * \\defgroup block GNU Radio HOWTO C++ Signal Processing Blocks \n"
         \o " * \\brief All C++ blocks that can be used from the HOWTO GNU Radio\n")
  @@
  "docs/doxygen/other/main_page.dox" :>
      ("Welcome to the GNU Radio HOWTO Block\n"
         \o "This is the intro page for the Doxygen manual generated for the HOWTO\n")
  @@
  "include/CMakeLists.txt" :>
      ("    howto_api.h\n"
         \o "    DESTINATION include/howto\n")
  @@
  "include/howto_api.h" :>
      ("#ifndef INCLUDED_HOWTO_API_H\n"
         \o "#define INCLUDED_HOWTO_API_H\n"
         \o "#ifdef gnuradio_howto_EXPORTS\n"
         \o "#  define HOWTO_API __GR_ATTR_EXPORT\n"
         \o "#  define HOWTO_API __GR_ATTR_IMPORT\n"
         \o "#endif /* INCLUDED_HOWTO_API_H */\n")
  @@
  "lib/CMakeLists.txt" :>
      ("add_library(gnuradio-howto SHARED )\n"
         \o "target_link_libraries(gnuradio-howto ${Boost_LIBRARIES} ${GRUEL_LIBRARIES} ${GNURADIO_CORE_LIBRARIES})\n"
         \o "set_target_properties(gnuradio-howto PROPERTIES DEFINE_SYMBOL \"gnuradio_howto_EXPORTS\")\n"
         \o "install(TARGETS gnuradio-howto\n"
         \o "set(GR_TEST_TARGET_DEPS gnuradio-howto)\n")
  @@
  "python/CMakeLists.txt" :>
      ("    DESTINATION ${GR_PYTHON_DIR}/howto\n"
         \o "set(GR_TEST_TARGET_DEPS gnuradio-howto)\n")
  @@
  "python/__init__.py" :>
      ("This is the GNU Radio HOWTO module. Place your Python package\n"
         \o "# import swig generated symbols into the howto namespace\n"
         \o "from howto_swig import *\n")
  @@
  "swig/CMakeLists.txt" :>
      ("set(GR_SWIG_LIBRARIES gnuradio-howto)\n"
         \o "set(GR_SWIG_DOC_FILE ${CMAKE_CURRENT_BINARY_DIR}/howto_swig_doc.i)\n"
         \o "GR_SWIG_MAKE(howto_swig howto_swig.i)\n"
         \o "GR_SWIG_INSTALL(TARGETS howto_swig DESTINATION ${GR_PYTHON_DIR}/howto)\n"
         \o "    howto_swig.i\n"
         \o "    ${CMAKE_CURRENT_BINARY_DIR}/howto_swig_doc.i\n"
         \o "    DESTINATION $(GR_INCLUDE_DIR)/howto/swig\n")
  @@
  "swig/howto_swig.i" :>
      ("#define HOWTO_API\n"
         \o "%include \"howto_swig_doc.i\"\n"
         \o "(load-extension-global \"libguile-gnuradio-howto_swig\" \"scm_init_gnuradio_howto_swig_module\")\n")

\* What NEWMOD_TARFILE holds once decoded and decompressed: the members of
\* the archive.  Of the text of a member the lines with 'howto' or 'HOWTO'
\* are kept; run() copies the other lines as they are.
NewmodArchive ==
  [dirs  |-> NewmodDirs,
   files |-> NewmodTokenFiles @@ [f \in NewmodPlainFiles |-> ""]]

\* How base64.b64decode(NEWMOD_TARFILE) begins.
NewmodDecoded == "BZh91AY&SY"

\* tar.extractall() in the working directory
ExtractAll(m) ==
  IF ~Running(m) THEN m
  ELSE [m EXCEPT
          !.fs.dirs = @ \cup {Resolve(m, d) : d \in NewmodArchive.dirs},
          !.fs.files = [q \in {Resolve(m, f) : f \in DOMAIN NewmodArchive.files}
                          |-> NewmodArchive.files[
                                CHOOSE f \in DOMAIN NewmodArchive.files :
                                  Resolve(m, f) = q]] @@ @]

\* ModToolNewModule.run, lines 2238-2244
Unpack(m) ==
  Unlink(
    ExtractAll(
      Say(WriteFile(Say(m, "Copying howto example..."),
                    "tmp.tar.bz2", NewmodDecoded),
          "Unpacking...")),
    "tmp.tar.bz2")

\* Where old stands in s from position p on.
Occurrences(s, old, p) ==
  {i \in p..(Len(s) - Len(old) + 1) : SubSeq(s, i, i + Len(old) - 1) = old}

\* s.replace(old, new) from position p of s on, the next occurrence of old
\* being at i.
RECURSIVE ReplaceFrom(_, _, _, _)
ReplaceNext(s, old, new, p, i) ==
  SubSeq(s, p, i - 1) \o new \o ReplaceFrom(s, old, new, i + Len(old))
ReplaceFrom(s, old, new, p) ==
  IF Occurrences(s, old, p) = {} THEN SubSeq(s, p, Len(s))
  ELSE ReplaceNext(s, old, new, p, Least(Occurrences(s, old, p)))

\* s.replace(old, new)
replace(s, old, new) == ReplaceFrom(s, old, new, 1)

\* skip_dir_re.search(root): '^..cmake|^..apps|^..grc|doxyxml'
skip_dir_re(root) ==
  \/ Search(<<Caret, One(AnyCh), One(AnyCh)>> \o Lit("cmake"), root)
       # <<>>
  \/ Search(<<Caret, One(AnyCh), One(AnyCh)>> \o Lit("apps"), root)
       # <<>>
  \/ Search(<<Caret, One(AnyCh), One(AnyCh)>> \o Lit("grc"), root)
       # <<>>
  \/ Search(Lit("doxyxml"), root) # <<>>

\* The files os.walk('.') comes to, and the root it gives with file q.
Walked(m) ==
  {q \in DOMAIN m.fs.files :
     /\ Len(q) > Len(m.cwd) + 1
     /\ SubSeq(q, 1, Len(m.cwd) + 1) = m.cwd \o "/"}
WalkRoot(m, q) ==
  IF Dirname(q) = m.cwd THEN "."
  ELSE "./" \o SubSeq(Dirname(q), Len(m.cwd) + 2, Len(Dirname(q)))

\* lines 2250-2257: the text written to file q of the walk, and the name
\* the file has in the end
Rewritten(m, q) ==
  IF skip_dir_re(WalkRoot(m, q)) THEN m.fs.files[q]
  ELSE replace(replace(m.fs.files[q], "howto", m.info["modname"]),
               "HOWTO", upper(m.info["modname"]))
Renamed(m, q) ==
  IF skip_dir_re(WalkRoot(m, q)) THEN q
  ELSE IF SubSeq(Basename(q), 1, IF Len(Basename(q)) < 5
                                   THEN Len(Basename(q)) ELSE 5) = "howto"
    THEN PathJoin(Dirname(q),
                  replace(Basename(q), "howto", m.info["modname"]))
  ELSE q

\* The file of the walk that ends with the name g; the names the walk
\* gives to the members of the archive differ from one another.
WalkedAs(m, g) == CHOOSE q \in Walked(m) : Renamed(m, q) = g

\* The files os.rename raises OSError for: the new name is in a directory
\* that is not there.
Failing(m) ==
  {q \in Walked(m) :
     Renamed(m, q) # q /\ Dirname(Renamed(m, q)) \notin m.fs.dirs}

\* The directory of the top of the new directory that file q is in or
\* under, "." for a file of the top.
TopOfRel(rel) ==
  IF Slashes(rel) = {} THEN "." ELSE SubSeq(rel, 1, Least(Slashes(rel)) - 1)
TopOf(m, q) == TopOfRel(SubSeq(q, Len(m.cwd) + 2, Len(q)))

\* The directories of the top the walk does not skip and can be through
\* with before it comes to file q, and the files it can be through with in
\* the directory of q.
TopsBefore(m, q) ==
  {TopOf(m, r) : r \in {r \in Walked(m) : ~skip_dir_re(WalkRoot(m, r))}}
    \ ({"."} \cup {TopOf(m, r) : r \in Failing(m)})
SiblingsBefore(m, q) ==
  {r \in Walked(m) : Dirname(r) = Dirname(q)} \ Failing(m)

\* Where the walk can stop at file q with an OSError, and what it is
\* through with by then.  os.walk gives a directory before the directories
\* in it, and those and the files in an order of its own; the members of
\* the archive whose name begins with 'howto' are in directories of the
\* top.
StopsAt(m, q) ==
  {[at |-> q,
    before |-> {r \in Walked(m) : TopOf(m, r) \in {"."} \cup tops} \cup files] :
     tops \in SUBSET TopsBefore(m, q), files \in SUBSET SiblingsBefore(m, q)}

\* The walk goes through every file when no os.rename fails.
Stops(m) ==
  IF Failing(m) = {} THEN {[at |-> "", before |-> Walked(m)]}
  ELSE UNION {StopsAt(m, q) : q \in Failing(m)}

\* The files after the walk went as stop says.
AfterWalk(m, stop) ==
  [g \in {Renamed(m, q) : q \in stop.before}
     |-> Rewritten(m, WalkedAs(m, g))]
    @@ [q \in {stop.at} \cap Walked(m) |-> Rewritten(m, q)]
    @@ [q \in (DOMAIN m.fs.files) \ (stop.before \cup {stop.at})
          |-> m.fs.files[q]]

RaisedAt(m, stop) == IF stop.at = "" THEN m ELSE Raise(m, "OSError")

\* ModToolNewModule.run, lines 2245-2257
ReplaceHowto(m, stop) ==
  IF ~Running(m) THEN m
  ELSE RaisedAt(
         [Say(m, "Replacing occurences of 'howto' to '" \o m.info["modname"]
                   \o "'...")
            EXCEPT !.fs.files = AfterWalk(m, stop)],
         stop)

\* lines 2258-2259
SayDone(m) ==
  Say(Say(m, "Done."),
      "Use 'gr_modtool add' to add a new block to this currently empty module.")

(***************************************************************************)
(* The editor at work: a buffer is loaded and edited twice.                *)
(***************************************************************************)

\* The most pieces a loaded buffer is made of.
MaxChunks == 4

\* The pieces loaded buffers are made of.
EdChunks == {"add_library(", ")", " ", "\n", "a.cc", "foo.cc"}

RECURSIVE StringsOf(_, _)
StringsOf(chunks, n) ==
  IF n = 0 THEN {""}
  ELSE LET shorter == StringsOf(chunks, n - 1)
       IN  shorter \cup {s \o c : s \in shorter, c \in chunks}

EdSeparators == {" ", "\n    "}
EdEntry == "add_library"
EdValue == "foo.cc"

\* CMakeFileEditor.__init__: the file's text is read into cfile.
EdInit ==
  \E text \in StringsOf(EdChunks, MaxChunks), sep \in EdSeparators :
    /\ ed = [cfile |-> text, separator |-> sep, orig |-> text, prev |-> text,
             ops |-> <<>>]
    /\ cg = Idle /\ cli = Idle /\ mt = Idle

EdDid(op, text) ==
  /\ Len(ed.ops) < 2
  /\ ed' = [ed EXCEPT !.cfile = text, !.prev = ed.cfile,
                      !.ops = Append(ed.ops, op)]
  /\ UNCHANGED <<cg, cli, mt>>

EdAppendValue ==
  EdDid("append_value",
        append_value(ed.cfile, ed.separator, EdEntry, EdValue, NoIgnore))

EdRemoveValue ==
  EdDid("remove_value", remove_value(ed.cfile, EdEntry, EdValue, NoIgnore))

EdDeleteEntry ==
  EdDid("delete_entry", delete_entry(ed.cfile, EdEntry, EdValue))

EdRemoveDoubleNewlines ==
  EdDid("remove_double_newlines", remove_double_newlines(ed.cfile))

EdNext ==
  \/ EdAppendValue
  \/ EdRemoveValue
  \/ EdDeleteEntry
  \/ EdRemoveDoubleNewlines

SpecEd == EdInit /\ [][EdNext]_vars

(***************************************************************************)
(* The code generator at work on an argument list, twice.                  *)
(***************************************************************************)

\* The most pieces an argument list is made of.
MaxArgChunks == 4

\* The pieces argument lists are made of.
ArgChunks == {"int a", "b", " ", "=", ",", ")"}

CgInit ==
  \E string \in StringsOf(ArgChunks, MaxArgChunks) :
    /\ cg = [string |-> string, orig |-> string, prev |-> string, ops |-> <<>>]
    /\ ed = Idle /\ cli = Idle /\ mt = Idle

CgDid(op, string) ==
  /\ Len(cg.ops) < 2
  /\ cg' = [cg EXCEPT !.string = string, !.prev = cg.string,
                      !.ops = Append(cg.ops, op)]
  /\ UNCHANGED <<ed, cli, mt>>

CgStripDefaultValues ==
  CgDid("strip_default_values", strip_default_values(cg.string))

CgStripArgTypes ==
  CgDid("strip_arg_types", strip_arg_types(cg.string))

CgNext ==
  \/ CgStripDefaultValues
  \/ CgStripArgTypes

SpecCg == CgInit /\ [][CgNext]_vars

(***************************************************************************)
(* The code generator at work on a template.                               *)
(***************************************************************************)

\* self._info as ModToolAdd.setup leaves it for a module, a block name, a
\* block type, a license text and an argument list.
AddInfo(modname, blockname, blocktype, license, arglist) ==
  LET prefix == modname \o (IF blocktype = "impl" THEN "i" ELSE "")
  IN  [modname       |-> modname,
       blockname     |-> blockname,
       blocktype     |-> blocktype,
       prefix        |-> prefix,
       fullblockname |-> prefix \o "_" \o blockname,
       license       |-> license,
       arglist       |-> arglist,
       inputsig      |-> DefaultSig,
       outputsig     |-> DefaultSig]

TplModnames   == {"bar", "howto"}
TplBlocknames == {"foo", "square_ff"}
TplLicenses   == {"GPL\nv3\n", "(c) me"}
TplArglists   == {"", "int a, float b = 2.0"}

NotCalled == [ok |-> FALSE, error |-> "not called", text |-> ""]

TplInit ==
  \E modname \in TplModnames, blockname \in TplBlocknames,
     blocktype \in block_types, license \in TplLicenses,
     arglist \in TplArglists :
    /\ cg = [kwargs |-> AddInfo(modname, blockname, blocktype, license, arglist),
             tpl_id |-> "", result |-> NotCalled]
    /\ ed = Idle /\ cli = Idle /\ mt = Idle

\* self.tpl.get_template(tpl, **self._info)
TplGetTemplate ==
  \E tpl_id \in TemplateIds \cup {"qa_h"} :
    /\ cg.tpl_id = ""
    /\ cg' = [cg EXCEPT !.tpl_id = tpl_id,
                        !.result = get_template(tpl_id, cg.kwargs)]
    /\ UNCHANGED <<ed, cli, mt>>

TplNext == TplGetTemplate

SpecTpl == TplInit /\ [][TplNext]_vars

(***************************************************************************)
(* The code generator asked for a template by any id, with all the entries *)
(* of self._info or with one of them left out.                             *)
(***************************************************************************)

\* kwargs without the entry key
Without(kwargs, key) == [k \in (DOMAIN kwargs) \ {key} |-> kwargs[k]]

RenderKeys ==
  {"modname", "blockname", "blocktype", "prefix", "fullblockname", "license",
   "arglist", "inputsig", "outputsig"}

RenderLicenses == {"GPL\nv3\n", ""}

\* The ids asked for: those of Templates, and two it does not have.
RenderIds == TemplateIds \cup {"qa_h", "makefile"}

RenderInit ==
  \E blocktype \in block_types, license \in RenderLicenses,
     dropped \in RenderKeys \cup {"nothing"} :
    /\ cg = [kwargs |-> Without(AddInfo("bar", "foo", blocktype, license,
                                        "int a, float b = 2.0"),
                                dropped),
             dropped |-> dropped, tpl_id |-> "", result |-> NotCalled]
    /\ ed = Idle /\ cli = Idle /\ mt = Idle

\* get_template(tpl_id, **kwargs)
RenderGetTemplate ==
  \E tpl_id \in RenderIds :
    /\ cg.tpl_id = ""
    /\ cg' = [cg EXCEPT !.tpl_id = tpl_id,
                        !.result = get_template(tpl_id, cg.kwargs)]
    /\ UNCHANGED <<ed, cli, mt>>

RenderNext == RenderGetTemplate

SpecRender == RenderInit /\ [][RenderNext]_vars

(***************************************************************************)
(* The process from main() on.  setup() and run() of add, remove and       *)
(* newmod are the subject of the specifications of those commands; here    *)
(* they are a call that returns or ends the process.                       *)
(***************************************************************************)

\* The most tokens that follow the program name.
MaxArgs == 3

\* sys.argv[0], and the tokens the rest of sys.argv is made of.
ProgName == "gr_modtool.py"
CliTokens == {"add", "insert", "rm", "help", "h", "foo", "-y", ""}

\* The sequences of at most n members of S.
SeqsOf(S, n) == UNION {[1..k -> S] : k \in 0..n}

CliInit ==
  \E args \in SeqsOf(CliTokens, MaxArgs) :
    /\ cli = [argv |-> <<ProgName>> \o args, pc |-> "main", modtool |-> "",
              calls |-> <<>>, out |-> <<>>,
              status |-> "running", error |-> "", code |-> 0]
    /\ ed = Idle /\ cg = Idle /\ mt = Idle

\* main() up to modtool = cmd_dict[command]()
CliMain ==
  /\ cli.pc = "main"
  /\ LET command == get_command_from_argv(cli.argv, DOMAIN get_class_dict) IN
     cli' = IF command.raised # ""
              THEN [cli EXCEPT !.pc = "done", !.status = "raised",
                               !.error = command.raised, !.code = 1]
            ELSE IF ~command.found
              THEN [cli EXCEPT !.pc = "done", !.status = "exited", !.code = 2,
                               !.out = <<"Usage:" \o Templates_usage>>]
            ELSE [cli EXCEPT
                    !.pc = "setup",
                    !.modtool = get_class_dict[command.command].class,
                    !.calls = <<get_class_dict[command.command].class
                                \o ".__init__">>]
  /\ UNCHANGED <<ed, cg, mt>>

\* modtool.setup(): ModToolHelp.setup is 'pass'; the setup of another
\* command returns or ends the process with sys.exit(1) or sys.exit(2).
CliSetup ==
  /\ cli.pc = "setup"
  /\ \E code \in {0, 1, 2} :
       /\ cli.modtool = "ModToolHelp" => code = 0
       /\ cli' = IF code = 0
                   THEN [cli EXCEPT !.pc = "run",
                                    !.calls = Append(@, cli.modtool \o ".setup")]
                   ELSE [cli EXCEPT !.pc = "done",
                                    !.calls = Append(@, cli.modtool \o ".setup"),
                                    !.status = "exited", !.code = code]
  /\ UNCHANGED <<ed, cg, mt>>

\* ModToolHelp.run() when globals() lists the classes in the given order:
\* what it prints, the calls it makes and the exception it ends with.
HelpRun(argv, order, help_requested_for) ==
  IF help_requested_for.raised # ""
    THEN [out |-> <<>>, calls |-> <<>>, raised |-> help_requested_for.raised]
  ELSE IF ~help_requested_for.found
    THEN [out |-> <<"Usage:" \o Templates_usage,
                    "\nList of possible commands:\n">>
                  \o print_class_descriptions(order),
          calls |-> <<>>, raised |-> ""]
  ELSE [out |-> <<print_help(get_class_dict[help_requested_for.command])>>,
        calls |-> <<get_class_dict[help_requested_for.command].class
                      \o ".__init__",
                    get_class_dict[help_requested_for.command].class
                      \o ".setup_parser">>,
        raised |-> ""]

\* What HelpRun gives becomes the state of the process.
AfterHelpRun(r) ==
  [cli EXCEPT !.pc = "done",
              !.calls = Append(@, "ModToolHelp.run") \o r.calls,
              !.out = @ \o r.out,
              !.status = IF r.raised = "" THEN "returned" ELSE "raised",
              !.error = r.raised,
              !.code = IF r.raised = "" THEN 0 ELSE 1]

\* modtool.run() of the help command
CliRunHelp ==
  /\ cli.pc = "run"
  /\ cli.modtool = "ModToolHelp"
  /\ \E order \in Orders(described_classes) :
       cli' = AfterHelpRun(
                HelpRun(cli.argv, order,
                        get_command_from_argv(cli.argv,
                          DOMAIN get_class_dict \ WordsOf(ModToolHelp))))
  /\ UNCHANGED <<ed, cg, mt>>

\* modtool.run() of another command: it returns, or ends the process with
\* sys.exit.
CliRunOther ==
  /\ cli.pc = "run"
  /\ cli.modtool # "ModToolHelp"
  /\ \E exits \in BOOLEAN, code \in {0, 1, 2} :
       /\ ~exits => code = 0
       /\ cli' = [cli EXCEPT !.pc = "done",
                             !.calls = Append(@, cli.modtool \o ".run"),
                             !.status = IF exits THEN "exited" ELSE "returned",
                             !.code = code]
  /\ UNCHANGED <<ed, cg, mt>>

CliNext ==
  \/ CliMain
  \/ CliSetup
  \/ CliRunHelp
  \/ CliRunOther

SpecCli == CliInit /\ [][CliNext]_vars

(***************************************************************************)
(* Module directories                                                      *)
(*                                                                         *)
(* A file system is the set of its directories and the text of each of     *)
(* its files.  The module "bar" is what newmod makes of its archive for    *)
(* that name, the files cut down to the lines the commands look at.        *)
(***************************************************************************)

TopCMakeLists ==
  "project(gr-bar CXX)\nfind_package(GnuradioCore)\nadd_subdirectory(lib)\n"

LibCMakeLists ==
  "add_library(gnuradio-bar SHARED )\n"
  \o "target_link_libraries(gnuradio-bar ${Boost_LIBRARIES})\n\n"
  \o "include(GrTest)\n"

IncludeCMakeLists ==
  "install(FILES\n    bar_api.h\n    DESTINATION include/bar\n)\n"

PythonCMakeLists ==
  "GR_PYTHON_INSTALL(\n    FILES\n    __init__.py\n"
  \o "    DESTINATION ${GR_PYTHON_DIR}/bar\n)\n\ninclude(GrTest)\n"

GrcCMakeLists ==
  "install(FILES\n    DESTINATION share/gnuradio/grc/blocks\n)\n"

MainSwigFile == "%include \"gnuradio.i\"\n\n%{\n%}\n\n"

\* The file system with one more file, and with one file less.
WithFile(filesystem, path, text) ==
  [filesystem EXCEPT !.files = (path :> text) @@ @]
WithoutFile(filesystem, path) ==
  [filesystem EXCEPT !.files = [q \in (DOMAIN @) \ {path} |-> @[q]]]

FreshModule ==
  [dirs  |-> {".", "lib", "include", "python", "swig", "grc", "apps", "docs"},
   files |-> ("CMakeLists.txt" :> TopCMakeLists)
             @@ ("lib/CMakeLists.txt" :> LibCMakeLists)
             @@ ("include/CMakeLists.txt" :> IncludeCMakeLists)
             @@ ("include/bar_api.h" :> "#define BAR_API\n")
             @@ ("python/CMakeLists.txt" :> PythonCMakeLists)
             @@ ("python/__init__.py" :> "from bar_swig import *\n")
             @@ ("swig/bar_swig.i" :> MainSwigFile)
             @@ ("grc/CMakeLists.txt" :> GrcCMakeLists)]

\* The module with a license file and a project file of its own.
LicensedModule ==
  WithFile(WithFile(FreshModule, "LICENSE", "Copyright 2012 A. Author\nGPLv3\n"),
           "gnuradio.project", "projectname = bar\n")

\* The module with an empty license file.
EmptyLicenseModule == WithFile(FreshModule, "LICENSE", "")

\* The module with build files that do not have the declarations, and
\* without swig/ and grc/.
BareModule ==
  [dirs  |-> {".", "lib", "include", "python"},
   files |-> ("CMakeLists.txt" :> TopCMakeLists)
             @@ ("lib/CMakeLists.txt" :> "list(APPEND bar_sources)\n")
             @@ ("include/CMakeLists.txt" :> "include(GrPlatform)\n")
             @@ ("python/CMakeLists.txt" :> "include(GrPython)\n")]

\* A module of lib/ alone.
LibOnlyModule ==
  [dirs  |-> {".", "lib"},
   files |-> ("CMakeLists.txt" :> TopCMakeLists)
             @@ ("lib/CMakeLists.txt" :> LibCMakeLists)]

\* A directory whose CMakeLists.txt is not that of a module.
NotAModule ==
  [dirs  |-> {".", "lib"},
   files |-> ("CMakeLists.txt" :> "project(gr-bar CXX)\n")
             @@ ("lib/CMakeLists.txt" :> LibCMakeLists)]

\* The file system in which directory dir holds what filesystem holds.
Relocated(filesystem, dir) ==
  [dirs  |-> {"."} \cup {Resolve([cwd |-> dir], d) : d \in filesystem.dirs},
   files |-> [q \in {PathJoin(dir, f) : f \in DOMAIN filesystem.files} |->
                filesystem.files[SubSeq(q, Len(dir) + 2, Len(q))]]]

(***************************************************************************)
(* The add command at work: setup(), then the steps of run().              *)
(***************************************************************************)

\* What the command line gives beside the defaults.
Options(given) == given @@ DefaultOptions

SyncFoo == [block_type |-> Some("sync"), block_name |-> Some("foo")]

AddGiven ==
  {[directory |-> "."],
   [block_type |-> Some("sync")],
   SyncFoo,
   [block_type |-> Some("sync"), block_name |-> Some("foo-bar")],
   [block_type |-> Some("sync"), block_name |-> Some("foo"),
    argument_list |-> Some("int a = 1"),
    add_python_qa |-> Some(TRUE), add_cpp_qa |-> Some(TRUE)],
   [skip_lib |-> TRUE] @@ SyncFoo,
   [skip_swig |-> TRUE] @@ SyncFoo,
   [skip_python |-> TRUE] @@ SyncFoo,
   [skip_python |-> TRUE, block_type |-> Some("hierpython"),
    block_name |-> Some("foo")],
   [skip_cmakefiles |-> TRUE] @@ SyncFoo,
   [module_name |-> Some("baz")] @@ SyncFoo,
   [license_file |-> Some("CMakeLists.txt")] @@ SyncFoo,
   [directory |-> "gr-bar"] @@ SyncFoo}
  \cup {[block_type |-> Some(t), block_name |-> Some("foo")] :
          t \in block_types \ {"sync"}}

\* The positional arguments: the command word, and a block name or none.
AddArgs == {<<"add">>, <<"add", "baz">>, <<"insert", "b-z">>}

AddModules ==
  {FreshModule, LicensedModule, EmptyLicenseModule, BareModule, LibOnlyModule,
   NotAModule, Relocated(FreshModule, "gr-bar")}

\* What the user types when asked.
AddAnswers ==
  [typed     : {<<"sync">>, <<"hierpython">>, <<"foo", "sink">>},
   blockname : {"foo", "foo-bar", ""},
   arglist   : {"", "int a = 1"},
   py_qa     : {"n", "N", ""},
   cc_qa     : {"n", "y"}]

AddInit ==
  \E given \in AddGiven, args \in AddArgs, filesystem \in AddModules :
    /\ mt = ModToolAdd_init(Options(given), args, filesystem)
    /\ ed = Idle /\ cg = Idle /\ cli = Idle

\* ModToolAdd.setup
AddSetup ==
  /\ mt.class = "ModToolAdd"
  /\ mt.pc = "setup"
  /\ \E answers \in AddAnswers :
       mt' = GoOn(ModToolAdd_setup(mt, answers), "lib")
  /\ UNCHANGED <<ed, cg, cli>>

\* ModToolAdd.run, lines 747-748
AddRunLib ==
  /\ mt.class = "ModToolAdd"
  /\ mt.pc = "lib"
  /\ mt' = GoOn(RunLib(mt), "swig")
  /\ UNCHANGED <<ed, cg, cli>>

\* ModToolAdd.run, lines 749-758
AddRunSwig ==
  /\ mt.class = "ModToolAdd"
  /\ mt.pc = "swig"
  /\ mt' = GoOn(RunSwig(mt), "python_qa")
  /\ UNCHANGED <<ed, cg, cli>>

\* ModToolAdd.run, lines 759-760
AddRunPythonQa ==
  /\ mt.class = "ModToolAdd"
  /\ mt.pc = "python_qa"
  /\ mt' = GoOn(RunPythonQa(mt), "python_hierblock")
  /\ UNCHANGED <<ed, cg, cli>>

\* ModToolAdd.run, lines 761-762
AddRunPythonHierblock ==
  /\ mt.class = "ModToolAdd"
  /\ mt.pc = "python_hierblock"
  /\ mt' = GoOn(RunPythonHierblock(mt), "grc")
  /\ UNCHANGED <<ed, cg, cli>>

\* ModToolAdd.run, lines 763-765
AddRunGrc ==
  /\ mt.class = "ModToolAdd"
  /\ mt.pc = "grc"
  /\ mt' = GoOn(RunGrc(mt), "done")
  /\ UNCHANGED <<ed, cg, cli>>

AddNext ==
  \/ AddSetup
  \/ AddRunLib
  \/ AddRunSwig
  \/ AddRunPythonQa
  \/ AddRunPythonHierblock
  \/ AddRunGrc

SpecAdd == AddInit /\ [][AddNext]_vars

(***************************************************************************)
(* The remove command at work: setup(), then the steps of run().           *)
(***************************************************************************)

\* The file system after 'add' with the given options in filesystem; the
\* user declines what add asks about.
Declined ==
  [typed |-> <<"sync">>, blockname |-> "foo", arglist |-> "",
   py_qa |-> "n", cc_qa |-> "n"]

Added(filesystem, given) ==
  ModToolAdd_run(
    ModToolAdd_setup(
      ModToolAdd_init(Options(given), <<"add">>, filesystem), Declined)).fs

\* Module bar with the sync block foo and its two test skeletons, and with
\* the sync block food beside it.
FooModule ==
  Added(FreshModule,
        [block_type |-> Some("sync"), block_name |-> Some("foo"),
         argument_list |-> Some(""),
         add_python_qa |-> Some(TRUE), add_cpp_qa |-> Some(TRUE)])

FooFoodModule ==
  Added(FooModule,
        [block_type |-> Some("sync"), block_name |-> Some("food"),
         argument_list |-> Some("")])

\* Module bar with the sync block food and then the sync block foo, each
\* with its C++ test skeleton.
FoodModule ==
  Added(FreshModule,
        [block_type |-> Some("sync"), block_name |-> Some("food"),
         argument_list |-> Some(""), add_cpp_qa |-> Some(TRUE)])

FoodFooModule ==
  Added(FoodModule,
        [block_type |-> Some("sync"), block_name |-> Some("foo"),
         argument_list |-> Some(""), add_cpp_qa |-> Some(TRUE)])

RmModules ==
  {FooModule, FooFoodModule, FreshModule,
   WithoutFile(FooModule, "swig/bar_swig.i"), NotAModule,
   Relocated(FooModule, "gr-bar")}

FooYes == [pattern |-> Some("foo"), yes |-> TRUE]

RmGiven ==
  {[directory |-> "."],
   [pattern |-> Some("foo")],
   FooYes,
   [pattern |-> Some("."), yes |-> TRUE],
   [pattern |-> Some(""), yes |-> TRUE],
   [pattern |-> Some("qa"), yes |-> TRUE],
   [pattern |-> Some("bar_foo.h"), yes |-> TRUE],
   [block_name |-> Some("foo"), yes |-> TRUE],
   [skip_lib |-> TRUE] @@ FooYes,
   [skip_python |-> TRUE] @@ FooYes,
   [skip_swig |-> TRUE] @@ FooYes,
   [module_name |-> Some("baz")] @@ FooYes,
   [directory |-> "gr-bar"] @@ FooYes}

RmArgs == {<<"rm">>, <<"remove", "food">>}

\* What the standard input holds.
RmInputs ==
  {<<>>, <<"q">>, <<"a">>, <<"n", "", "Q ">>, <<"", "n", "a">>,
   <<"foo", "y", "n", "a">>, <<"foo", "q">>,
   <<"", "", "", "", "", "", "", "">>}

\* With --yes and a pattern among the options nothing is read from the
\* standard input and the arguments are not looked at.
Unattended == {given \in RmGiven : "yes" \in DOMAIN given}

RmCases ==
  [given : Unattended, args : {<<"rm">>}, filesystem : RmModules,
   input : {<<>>}]
    \cup [given : RmGiven \ Unattended, args : RmArgs,
          filesystem : {FooModule, FooFoodModule,
                        WithoutFile(FooModule, "swig/bar_swig.i")},
          input : RmInputs]
    \cup [given : {[pattern |-> Some("qa")]}, args : {<<"rm">>},
          filesystem : {FoodFooModule},
          input : {<<"n", "">>, <<"y", "n">>, <<"a">>, <<"", "q">>}]

RmInit ==
  \E case \in RmCases :
    /\ mt = ModToolRemove_init(Options(case.given), case.args,
                               case.filesystem, case.input)
    /\ ed = Idle /\ cg = Idle /\ cli = Idle

\* ModToolRemove.setup
RmSetup ==
  /\ mt.class = "ModToolRemove"
  /\ mt.pc = "setup"
  /\ mt' = GoOn(ModToolRemove_setup(mt), "lib")
  /\ UNCHANGED <<ed, cg, cli>>

\* ModToolRemove.run, lines 931-933
RmRunLib ==
  /\ mt.class = "ModToolRemove"
  /\ mt.pc = "lib"
  /\ \E files \in GlobOrders(mt, "lib", <<".cc", ".h">>) :
       mt' = GoOn(RemoveInLib(mt, files), "include")
  /\ UNCHANGED <<ed, cg, cli>>

\* ModToolRemove.run, lines 934-936
RmRunInclude ==
  /\ mt.class = "ModToolRemove"
  /\ mt.pc = "include"
  /\ \E files \in GlobOrders(mt, "include", <<".cc", ".h">>) :
       mt' = GoOn(RemoveInInclude(mt, files), "swig")
  /\ UNCHANGED <<ed, cg, cli>>

\* ModToolRemove.run, lines 937-940
RmRunSwig ==
  /\ mt.class = "ModToolRemove"
  /\ mt.pc = "swig"
  /\ mt' = GoOn(RemoveInSwig(mt), "python")
  /\ UNCHANGED <<ed, cg, cli>>

\* ModToolRemove.run, lines 941-944
RmRunPython ==
  /\ mt.class = "ModToolRemove"
  /\ mt.pc = "python"
  /\ \E files \in GlobOrders(mt, "python", <<".py">>) :
       mt' = GoOn(RemoveInPython(mt, files), "grc")
  /\ UNCHANGED <<ed, cg, cli>>

\* ModToolRemove.run, lines 945-946
RmRunGrc ==
  /\ mt.class = "ModToolRemove"
  /\ mt.pc = "grc"
  /\ \E files \in GlobOrders(mt, "grc", <<".xml">>) :
       mt' = GoOn(RemoveInGrc(mt, files), "done")
  /\ UNCHANGED <<ed, cg, cli>>

RmNext ==
  \/ RmSetup
  \/ RmRunLib
  \/ RmRunInclude
  \/ RmRunSwig
  \/ RmRunPython
  \/ RmRunGrc

SpecRm == RmInit /\ [][RmNext]_vars

(***************************************************************************)
(* The newmod command at work: setup() and, step by step, run().           *)
(***************************************************************************)

\* Directories newmod is started in: an empty one, one with a directory
\* gr-baz, one with a file gr-foo, one with a directory x.
EmptyDirectory == [dirs |-> {"."}, files |-> EmptyDict]

NewDirectories ==
  {EmptyDirectory,
   [EmptyDirectory EXCEPT !.dirs = {".", "gr-baz"}],
   WithFile(EmptyDirectory, "gr-foo", ""),
   [EmptyDirectory EXCEPT !.dirs = {".", "x"}]}

\* The options given on the command line without a module name, and with
\* one.
NewNameless ==
  {[directory |-> "."], [directory |-> "out"], [directory |-> "x/y"],
   [directory |-> "gr-baz"]}

NewNamed ==
  {[module_name |-> Some("baz")], [module_name |-> Some("aHOWTO")],
   [module_name |-> Some("howto2")], [module_name |-> Some("b-z")],
   [module_name |-> Some("")],
   [module_name |-> Some("baz"), directory |-> "out"]}

NewArgs == {<<"newmod">>, <<"nm", "foo">>, <<"create", "myhowto">>}

\* What the standard input holds.
NewInputs ==
  {<<>>, <<"baz">>, <<"">>, <<"a/b">>, <<"HOWTO">>, <<"howto">>}

\* Nothing is read from the standard input when the name is among the
\* options or the arguments.
NewCases ==
  [given : NewNameless, args : {<<"newmod">>}, filesystem : NewDirectories,
   input : NewInputs]
    \cup [given : NewNameless, args : NewArgs \ {<<"newmod">>},
          filesystem : NewDirectories, input : {<<>>}]
    \cup [given : NewNamed, args : NewArgs, filesystem : NewDirectories,
          input : {<<>>}]

NewInit ==
  \E case \in NewCases :
    /\ mt = ModToolNewModule_init(Options(case.given), case.args,
                                  case.filesystem, case.input)
    /\ ed = Idle /\ cg = Idle /\ cli = Idle

\* ModToolNewModule.setup
NewSetup ==
  /\ mt.pc = "setup"
  /\ mt' = GoOn(ModToolNewModule_setup(mt), "create")
  /\ UNCHANGED <<ed, cg, cli>>

\* ModToolNewModule.run, lines 2231-2237
NewCreate ==
  /\ mt.pc = "create"
  /\ mt' = GoOn(CreateDirectory(mt), "unpack")
  /\ UNCHANGED <<ed, cg, cli>>

\* ModToolNewModule.run, lines 2238-2244
NewUnpack ==
  /\ mt.pc = "unpack"
  /\ mt' = GoOn(Unpack(mt), "replace")
  /\ UNCHANGED <<ed, cg, cli>>

\* ModToolNewModule.run, lines 2245-2259
NewReplace ==
  /\ mt.pc = "replace"
  /\ \E stop \in Stops(mt) :
       mt' = GoOn(SayDone(ReplaceHowto(mt, stop)), "done")
  /\ UNCHANGED <<ed, cg, cli>>

NewNext ==
  \/ NewSetup
  \/ NewCreate
  \/ NewUnpack
  \/ NewReplace

SpecNew == NewInit /\ [][NewNext]_vars

(***************************************************************************)
(* The add and the remove command started on a directory that is a module, *)
(* is no module, or is not there.                                          *)
(***************************************************************************)

\* What --directory names: nothing, a file, directories that hold no
\* module, and directories that may hold one.
ModDirectories == {"nowhere", "CMakeLists.txt", "lib", "docs", "gr-bar", "."}

\* The module with a project file that names it otherwise than its
\* CMakeLists.txt does, with a project file that has no projectname, and
\* with a CMakeLists.txt that declares no project gr-<name>.
RenamedModule  == WithFile(FooModule, "gnuradio.project", "projectname = baz\n")
NamelessProject == WithFile(FooModule, "gnuradio.project", "name = bar\n")
UndeclaredModule ==
  WithFile(FooModule, "CMakeLists.txt",
           "find_package(GnuradioCore)\nadd_subdirectory(lib)\n")

\* The module with a LICENCE file; with LICENSE, LICENCE and a COPYING file;
\* and the module in gr-bar/ with a COPYING file beside gr-bar/.
LicenceModule == WithFile(FooModule, "LICENCE", "Licence of bar\n")
LicensesModule ==
  WithFile(WithFile(LicenceModule, "LICENSE", "License of bar\n"),
           "COPYING", "Public domain\n")
CopyingOutside ==
  WithFile(Relocated(FooModule, "gr-bar"), "COPYING", "Public domain\n")

\* A directory with the CMakeLists.txt of a module and nothing else.
BuildFileOnly == WithFile(EmptyDirectory, "CMakeLists.txt", TopCMakeLists)

ModModules ==
  {FooModule, NotAModule, EmptyDirectory, Relocated(FooModule, "gr-bar"),
   WithoutFile(FooModule, "CMakeLists.txt"), BuildFileOnly,
   RenamedModule, NamelessProject, UndeclaredModule,
   LicenceModule, LicensesModule, CopyingOutside}

ModAddGiven ==
  {SyncFoo, [block_type |-> Some("general")],
   [module_name |-> Some("qux")] @@ SyncFoo,
   [license_file |-> Some("COPYING")] @@ SyncFoo,
   [license_file |-> Some("lib")] @@ SyncFoo}

ModRmGiven ==
  {FooYes, [pattern |-> Some("foo")],
   [module_name |-> Some("qux")] @@ FooYes}

ModInputs == {<<>>, <<"y", "n", "q">>}

ModInit ==
  \E directory \in ModDirectories, filesystem \in ModModules :
    /\ \/ \E given \in ModAddGiven :
            mt = ModToolAdd_init(
                   Options([directory |-> directory] @@ given),
                   <<"add">>, filesystem)
       \/ \E given \in ModRmGiven, input \in ModInputs :
            mt = ModToolRemove_init(
                   Options([directory |-> directory] @@ given),
                   <<"rm">>, filesystem, input)
    /\ ed = Idle /\ cg = Idle /\ cli = Idle

ModNext == AddNext \/ RmNext

SpecMod == ModInit /\ [][ModNext]_vars

(***************************************************************************)
(* Claims about the editor                                                 *)
(***************************************************************************)

\* The argument text of the first declaration of entry in buffer s, and
\* whether there is one.
FirstDecl(s, entry) ==
  LET re == Lit(entry) \o Lit("(") \o <<Star(NoParen)>> \o Lit(")")
      m  == Search(re, s)
  IN  IF m = <<>> THEN [found |-> FALSE, args |-> ""]
      ELSE [found |-> TRUE,
            args |-> Group(s, m, 3, 3)]

\* A declaration without whitespace irregularities: its arguments neither
\* start nor end with whitespace.
RegularDecl(s, entry) ==
  LET d == FirstDecl(s, entry)
  IN  d.found /\ d.args # "" /\ Strip(d.args) = d.args

\* C4: for a buffer whose declaration has no trailing-whitespace
\* irregularities, append_value(entry, v) followed by remove_value(entry, v)
\* gives back the original buffer.
C4_AppendRemoveRestores ==
  (ed.ops = <<"append_value", "remove_value">> /\ RegularDecl(ed.orig, EdEntry))
    => ed.cfile = ed.orig

\* Whether two consecutive lines of s are empty.
HasBlankRun(s) ==
  \E p \in 1..Len(s) :
    /\ p = 1 \/ Ch(s, p - 1) = "\n"
    /\ Ch(s, p) = "\n"
    /\ Ch(s, p + 1) = "\n"

\* C5: remove_double_newlines is idempotent, and after one application no
\* two consecutive blank lines remain in the buffer.
C5_CollapseIdempotentNoBlankRun ==
  /\ ed.ops = <<"remove_double_newlines", "remove_double_newlines">>
       => ed.cfile = ed.prev
  /\ (ed.ops # <<>> /\ ed.ops[Len(ed.ops)] = "remove_double_newlines")
       => ~HasBlankRun(ed.cfile)

(***************************************************************************)
(* Claims about the code generator                                         *)
(***************************************************************************)

\* C6: stripping default values is idempotent, and an argument list
\* without default values (without any '=') is returned unchanged.
C6_StripDefaultsIdempotent ==
  /\ cg.ops = <<"strip_default_values", "strip_default_values">>
       => cg.string = cg.prev
  /\ (cg.ops = <<"strip_default_values">> /\ ~Contains(cg.orig, "="))
       => cg.string = cg.orig

\* A list with two default values has been stripped twice.
C6_Witness ==
  /\ cg.ops = <<"strip_default_values", "strip_default_values">>
  /\ cg.orig = "b=,="
  /\ cg.prev = "b,"
  /\ cg.string = "b,"

\* The template ModToolAdd writes a unit's primary file from: _run_lib
\* writes block_h or impl_h (with its .cc), _run_python_hierblock writes
\* hier_python.
PrimaryTemplate(blocktype) ==
  IF blocktype = "impl" THEN "impl_h"
  ELSE IF blocktype = "hierpython" THEN "hier_python"
  ELSE "block_h"

\* A text that opens and closes the header guard named guard.
GuardedBy(text, guard) ==
  /\ Contains(text, "#ifndef " \o guard \o "\n#define " \o guard \o "\n")
  /\ Contains(text, "#endif /* " \o guard \o " */\n")

\* C7: for every unit kind, rendering the primary header template succeeds
\* and the text opens and closes one header guard, which is made of the
\* upper-cased module and unit names.
C7_HeaderGuardForEveryKind ==
  cg.tpl_id = PrimaryTemplate(cg.kwargs.blocktype)
    => /\ cg.result.ok
       /\ \E pre \in {"INCLUDED_", "INCLUDED_QA_"} :
            GuardedBy(cg.result.text,
                      pre \o upper(cg.kwargs.fullblockname) \o "_H")

(***************************************************************************)
(* Claims about the dispatcher and the help command                        *)
(***************************************************************************)

KnownWords == DOMAIN get_class_dict

\* Token i of argv is a command word, and the tokens before it are neither
\* command words nor empty.
FirstKnownAt(argv, i) ==
  /\ argv[i] \in KnownWords
  /\ \A j \in 1..(i - 1) : argv[j] \notin KnownWords /\ argv[j] # ""

\* Token i of argv is empty and no token before it is a command word or
\* empty.
FirstEmptyAt(argv, i) ==
  /\ argv[i] = ""
  /\ \A j \in 1..(i - 1) : argv[j] \notin KnownWords /\ argv[j] # ""

\* main() printed the usage and left with code 2 without calling anything.
UsageAndExit2 ==
  /\ cli.modtool = "" /\ cli.calls = <<>>
  /\ cli.out = <<"Usage:" \o Templates_usage>>
  /\ cli.status = "exited" /\ cli.code = 2

\* The handler of class name c was constructed, and its setup and run were
\* called as far as the process went.
HandlerRuns(c) ==
  /\ cli.modtool = c
  /\ Head(cli.calls) = c \o ".__init__"
  /\ cli.pc \in {"run", "done"} => cli.calls[2] = c \o ".setup"
  /\ cli.pc = "done" /\ cli.status = "returned" => (c \o ".run") \in Range(cli.calls)

\* C8 as stated: the first token after the program name that does not begin
\* with "-" decides: a command word runs its handler, anything else (or no
\* such token) gives the usage and exit code 2, whatever follows.
C8_FirstNonFlagTokenDecides ==
  cli.pc # "main" =>
    LET args    == Tail(cli.argv)
        nonflag == {i \in DOMAIN args : Ch(args[i], 1) # "-"}
    IN  IF nonflag # {} /\ args[Least(nonflag)] \in KnownWords
          THEN HandlerRuns(get_class_dict[args[Least(nonflag)]].class)
          ELSE UsageAndExit2

\* C8, amended: the dispatcher scans the whole argument vector, program name
\* included, and selects the first token that is a command name or alias;
\* tokens that are not command words are passed over whether or not they
\* begin with "-".  The usage and exit code 2 come only when no token is a
\* command word, and an empty token met before any command word ends the
\* process with IndexError and nothing run.
C8_FirstKnownCommandSelected ==
  cli.pc # "main" =>
    /\ \A i \in DOMAIN cli.argv :
         FirstKnownAt(cli.argv, i) =>
           HandlerRuns(get_class_dict[cli.argv[i]].class)
    /\ (\A i \in DOMAIN cli.argv :
          cli.argv[i] \notin KnownWords /\ cli.argv[i] # "") => UsageAndExit2
    /\ \A i \in DOMAIN cli.argv :
         FirstEmptyAt(cli.argv, i) =>
           /\ cli.modtool = "" /\ cli.calls = <<>> /\ cli.out = <<>>
           /\ cli.status = "raised" /\ cli.error = "IndexError"

\* A command word that follows a token which is no command was selected and
\* its handler ran to the end.
C8_Witness ==
  /\ cli.argv = <<"gr_modtool.py", "foo", "add">>
  /\ cli.pc = "done" /\ cli.status = "returned"
  /\ cli.calls = <<"ModToolAdd.__init__", "ModToolAdd.setup", "ModToolAdd.run">>

\* The tokens of argv that are words of a command other than help.
OtherCommandsAt(argv) ==
  {i \in DOMAIN argv : argv[i] \in KnownWords \ WordsOf(ModToolHelp)}

\* The help command ran and no empty token stopped its scan of argv.
HelpRan ==
  /\ cli.modtool = "ModToolHelp" /\ cli.pc = "done"
  /\ cli.status = "returned"

\* Help with the word of another command: that command's option help is
\* printed, its class is constructed and asked for its parser, and neither
\* its setup nor its run is called.
FlagHelpOnly(c) ==
  /\ cli.out = <<print_help(c)>>
  /\ cli.calls = <<"ModToolHelp.__init__", "ModToolHelp.setup",
                   "ModToolHelp.run",
                   c.class \o ".__init__", c.class \o ".setup_parser">>

SyncFooInBar ==
  /\ mt.pc = "done"
  /\ "fullblockname" \in DOMAIN mt.info
  /\ mt.info["blocktype"] = "sync"
  /\ mt.info["inputsig"] = DefaultSig
  /\ mt.info["outputsig"] = DefaultSig
  /\ mt.info["blockname"] = "foo"
  /\ mt.info["modname"] = "bar"
  /\ ~mt.add_cc_qa
  /\ ~mt.add_py_qa
  /\ ~mt.options.skip_cmakefiles

\* Whether text has an add_library declaration whose values have value
\* among them.
DeclaresSource(text, value) ==
  /\ get_entry_value(text, "add_library", NoIgnore).found
  /\ Contains(get_entry_value(text, "add_library", NoIgnore).value, value)

\* The header and the source of foo are there, and lib's build file
\* declares the source.
FooCreatedAndRegistered ==
  /\ IsFile(mt, "include/bar_foo.h")
  /\ IsFile(mt, "lib/bar_foo.cc")
  /\ IsFile(mt, "lib/CMakeLists.txt")
  /\ DeclaresSource(Read(mt, "lib/CMakeLists.txt"), "bar_foo.cc")

StartedWithDeclaration ==
  /\ Resolve(mt, "lib/CMakeLists.txt") \in DOMAIN mt.start.files
  /\ get_entry_value(mt.start.files[Resolve(mt, "lib/CMakeLists.txt")],
                     "add_library", NoIgnore).found

NameReached ==
  /\ mt.pc # "setup"
  /\ "blocktype" \in DOMAIN mt.info
  /\ \A i \in DOMAIN mt.out :
       mt.out[i] # "Can't do anything if the relevant subdir is missing. See ya."

\* The unit name by precedence: the flag, the positional argument, what the
\* user typed at the prompt.
NamePrompt == "Enter name of block/code (without module name prefix): "
UnitNameGiven ==
  IF mt.options.block_name # None THEN Val(mt.options.block_name)
  ELSE IF Len(mt.args) >= 2 THEN mt.args[2]
  ELSE mt.stdin[CHOOSE i \in DOMAIN mt.stdin : mt.stdin[i].prompt = NamePrompt].answer

\* The process said the name is invalid and exited with code 2, having
\* written no file.
RejectedAsInvalid ==
  /\ mt.status = "exited"
  /\ mt.code = 2
  /\ \E i \in DOMAIN mt.out : mt.out[i] = "Invalid block name."
  /\ mt.log = <<>>

\* C10: the unit name (flag, else positional argument, else prompt) is
\* accepted only if all of it is of the class [a-zA-Z0-9_]; for a name with a
\* character outside the class the process reports an invalid name and exits
\* with code 2 before any file is written.
C10_NameWhollyIdentifier ==
  NameReached =>
    /\ (UnitNameGiven # "" /\ ~WhollyIdentifier(UnitNameGiven))
         => RejectedAsInvalid
    /\ ~RejectedAsInvalid
         => (/\ "fullblockname" \in DOMAIN mt.info
             /\ mt.info["blockname"] = UnitNameGiven)

(***************************************************************************)
(* Claims about the remove command.                                        *)
(***************************************************************************)

\* The remove command returned from run() having answered every question
\* with yes.
RemovedUnattended ==
  /\ mt.class = "ModToolRemove"
  /\ mt.pc = "done"
  /\ mt.status = "returned"
  /\ mt.info["yes"]

\* The subdirectories _run_subdir went through, and the endings of its
\* globs there.
ScannedSubdirs ==
  {d \in {"lib", "include", "python", "grc"} : ~mt.skip_subdirs[d]}

ScannedEndings(d) ==
  IF d = "python" THEN {".py"}
  ELSE IF d = "grc" THEN {".xml"}
  ELSE {".cc", ".h"}

\* The basenames of the files that were there at the start and are gone.
DeletedBasenames ==
  {Basename(f) : f \in (DOMAIN mt.start.files) \ (DOMAIN mt.fs.files)}

\* text names the file b: b stands in it as a whole file name.
RefersTo(text, b) ==
  \E i \in 1..(Len(text) - Len(b) + 1) :
    /\ SubSeq(text, i, i + Len(b) - 1) = b
    /\ i = 1 \/ Ch(text, i - 1) \notin NameChars \cup {"."}
    /\ i + Len(b) > Len(text) \/ Ch(text, i + Len(b)) \notin NameChars \cup {"."}

\* The CMakeLists.txt files of the subdirectories that name a deleted file.
StaleReferences ==
  {f \in DOMAIN mt.fs.files :
     /\ Basename(f) = "CMakeLists.txt"
     /\ \E b \in DeletedBasenames : RefersTo(mt.fs.files[f], b)}

\* C2: after remove has run with a pattern and yes to all, every file of the
\* scanned subdirectories whose basename matches the pattern is deleted, and
\* no CMakeLists.txt still refers to the basename of a deleted file.
C2_RemoveLeavesNoReference ==
  RemovedUnattended =>
    /\ \A d \in ScannedSubdirs :
         \A ext \in ScannedEndings(d) :
         \A f \in Globbed([mt EXCEPT !.fs = mt.start], d, ext) :
           Search(RawRegex(mt.info["pattern"]), Basename(f)) # <<>>
             => Resolve(mt, f) \notin DOMAIN mt.fs.files
    /\ StaleReferences = {}

(***************************************************************************)
(* Claims about the newmod command.                                        *)
(***************************************************************************)

\* newmod returned from run().
BootstrapCompleted ==
  /\ mt.class = "ModToolNewModule"
  /\ mt.pc = "done"
  /\ mt.status = "returned"

\* Where 'howto' or 'HOWTO' stands in s from position p on.
TokensFrom(s, p) ==
  Occurrences(s, "howto", p) \cup Occurrences(s, "HOWTO", p)

\* s from position p on with name in the place of every 'howto' and the
\* upper-case name in the place of every 'HOWTO', the next of them being
\* at i.
RECURSIVE InPlaceFrom(_, _, _)
InPlaceNext(s, name, p, i) ==
  SubSeq(s, p, i - 1)
    \o (IF SubSeq(s, i, i + 4) = "howto" THEN name ELSE upper(name))
    \o InPlaceFrom(s, name, i + 5)
InPlaceFrom(s, name, p) ==
  IF TokensFrom(s, p) = {} THEN SubSeq(s, p, Len(s))
  ELSE InPlaceNext(s, name, p, Least(TokensFrom(s, p)))

\* The members of the archive that hold the token.
TokenMembers ==
  {f \in DOMAIN NewmodArchive.files :
     TokensFrom(NewmodArchive.files[f], 1) # {}}

\* Member f of the archive is, under some name, in its directory of the new
\* module with the name of the module in the place of every token.
HoldsModname(f) ==
  \E g \in Walked(mt) :
    /\ Dirname(g) = Dirname(Resolve(mt, f))
    /\ mt.fs.files[g] = InPlaceFrom(NewmodArchive.files[f],
                                    mt.info["modname"], 1)

StartsWithHowto(name) == Len(name) >= 5 /\ SubSeq(name, 1, 5) = "howto"

\* C3: after newmod of a module named M has completed, every file of the new
\* directory that held 'howto' or 'HOWTO' holds M, or M in upper case, in
\* its place, and no file of the new directory has a name that starts with
\* 'howto'.
C3_BootstrapReplacesHowto ==
  BootstrapCompleted =>
    /\ \A f \in TokenMembers : HoldsModname(f)
    /\ \A g \in Walked(mt) : ~StartsWithHowto(Basename(g))

(***************************************************************************)
(* Claims about the directory add and remove work in.                      *)
(***************************************************************************)

\* The directory the command was started on, as a path of the file system.
TargetDirectory == Resolve([cwd |-> "."], mt.options.directory)

\* The directory is absent.
TargetAbsent == TargetDirectory \notin mt.start.dirs

\* The directory is there and is not a module directory: it has no
\* CMakeLists.txt, or one that does not look for GnuradioCore.
TargetNotAModule ==
  /\ ~TargetAbsent
  /\ LET descriptor == PathJoin(TargetDirectory, "CMakeLists.txt")
     IN  \/ descriptor \notin DOMAIN mt.start.files
         \/ ~Contains(mt.start.files[descriptor],
                      "find_package(GnuradioCore)")

\* setup() of add or remove is over.
AfterModSetup ==
  /\ mt.class \in {"ModToolAdd", "ModToolRemove"}
  /\ mt.pc # "setup"

NoModuleReported ==
  /\ mt.out # <<>>
  /\ mt.out[Len(mt.out)]
       = "No GNU Radio module found in the given directory. Quitting."
  /\ TargetAbsent =>
       <<"Can't read or chdir to directory " \o mt.options.directory \o ".">>
         = SubSeq(mt.out, 1, Len(mt.out) - 1)

NoFileModified == mt.fs = mt.start /\ mt.log = <<>>

\* C11 as stated: when the target directory is absent or is not a module
\* directory, add and remove report the condition and exit with code 2,
\* having modified no file.
C11_NoModuleExitsWithTwo ==
  (AfterModSetup /\ (TargetAbsent \/ TargetNotAModule)) =>
    /\ NoModuleReported
    /\ mt.status = "exited" /\ mt.code = 2
    /\ NoFileModified

\* C11 as the code has it: when the target directory is absent or is not a
\* module directory, add and remove report the condition and exit with
\* code 1, having modified no file; and they go on to their steps only in a
\* directory that is a module directory.
C11_NoModuleExitsWithOne ==
  /\ (AfterModSetup /\ (TargetAbsent \/ TargetNotAModule)) =>
       /\ NoModuleReported
       /\ mt.status = "exited" /\ mt.code = 1
       /\ NoFileModified
  /\ (AfterModSetup /\ ~(TargetAbsent \/ TargetNotAModule)) =>
       /\ mt.out # <<>>
       /\ mt.out[1] = "Operating in directory " \o mt.options.directory

C11_Witness ==
  /\ AfterModSetup
  /\ mt.class = "ModToolRemove"
  /\ TargetNotAModule
  /\ mt.options.directory = "lib"
  /\ mt.status = "exited"

(***************************************************************************)
(* Claims about the name of the module.                                    *)
(***************************************************************************)

\* The name a file of the target directory yields to a pattern of
\* get_modname, or None: no such file, or nothing in it the pattern finds.
NameFrom(file, regexp, g) ==
  LET q == PathJoin(TargetDirectory, file)
  IN  IF q \notin DOMAIN mt.start.files THEN None
      ELSE LET found == Search(regexp, mt.start.files[q])
           IN  IF found = <<>> THEN None
               ELSE Some(Strip(Group(mt.start.files[q], found, g, g)))

\* The sources of the module name in the order of the claim.
NameSources ==
  <<mt.options.module_name,
    NameFrom("gnuradio.project", projectname_re, 5),
    NameFrom("CMakeLists.txt", project_re, 6)>>

Yielding == {i \in 1..3 : NameSources[i] # None}

FirstYielding == CHOOSE i \in Yielding : \A j \in Yielding : i <= j

\* setup() of add or remove is over in a module directory.
AfterModuleSetup ==
  AfterModSetup /\ ~TargetAbsent /\ ~TargetNotAModule

\* C12 as stated: the module name is the flag if given, otherwise what the
\* project file yields, otherwise the project name of CMakeLists.txt:
\* whenever an earlier source yields no name the next is tried, and if none
\* yields a name the operation fails with ModuleNotFoundError before any
\* file is written.
C12_ModnameFallsThrough ==
  AfterModuleSetup =>
    IF Yielding # {}
      THEN /\ "modname" \in DOMAIN mt.info
           /\ mt.info["modname"] = Val(NameSources[FirstYielding])
    ELSE /\ mt.status = "raised"
         /\ mt.error = "ModuleNotFoundError"
         /\ NoFileModified

\* What holds of the name: the flag is the name when given; without the
\* flag, a project file that is there decides alone (its name, or the run
\* ends with AttributeError), and CMakeLists.txt decides when no project
\* file is there; a run without a name has modified no file.
ModnameAsCoded ==
  AfterModuleSetup =>
    LET named == "modname" \in DOMAIN mt.info
        project == PathJoin(TargetDirectory, "gnuradio.project")
        source == IF project \in DOMAIN mt.start.files THEN 2 ELSE 3
    IN  IF mt.options.module_name # None
          THEN named /\ mt.info["modname"] = Val(mt.options.module_name)
        ELSE IF NameSources[source] # None
          THEN named /\ mt.info["modname"] = Val(NameSources[source])
        ELSE /\ ~named
             /\ mt.status = "raised" /\ mt.error = "AttributeError"
             /\ NoFileModified

(***************************************************************************)
(* Claims about the license.                                               *)
(***************************************************************************)

\* The text of a file of the module directory at the start, or None where
\* the module directory has no such file.
ModuleFile(name) ==
  LET q == PathJoin(TargetDirectory, name)
  IN  IF q \in DOMAIN mt.start.files THEN Some(mt.start.files[q]) ELSE None

LicenseFlagged == mt.options.license_file # None

\* setup() of add has chosen a license.
LicenseChosen == mt.class = "ModToolAdd" /\ "license" \in DOMAIN mt.info

\* C13 as stated: the license is the contents of the file named by the
\* license-file flag whenever that flag is given; otherwise the contents of
\* LICENSE, else of LICENCE, in the module root; otherwise the default
\* license.
C13_LicenseFlagAlwaysWins ==
  LicenseChosen =>
    IF LicenseFlagged
      THEN Some(mt.info["license"]) = ModuleFile(Val(mt.options.license_file))
    ELSE IF ModuleFile("LICENSE") # None
      THEN Some(mt.info["license"]) = ModuleFile("LICENSE")
    ELSE IF ModuleFile("LICENCE") # None
      THEN Some(mt.info["license"]) = ModuleFile("LICENCE")
    ELSE mt.info["license"] = Templates_defaultlicense(CurrentYear)

\* C13 as the code has it: the license is the contents of the file named by
\* the license-file flag whenever that flag is given and names a file that
\* is there, the name being taken from the module directory; otherwise the
\* contents of LICENSE, else of LICENCE, in the module root; otherwise the
\* default license.  And add chooses a license in every run that gets past
\* the name of the block.
C13_LicensePrecedence ==
  /\ LicenseChosen =>
       IF LicenseFlagged /\ ModuleFile(Val(mt.options.license_file)) # None
         THEN Some(mt.info["license"])
                = ModuleFile(Val(mt.options.license_file))
       ELSE IF ModuleFile("LICENSE") # None
         THEN Some(mt.info["license"]) = ModuleFile("LICENSE")
       ELSE IF ModuleFile("LICENCE") # None
         THEN Some(mt.info["license"]) = ModuleFile("LICENCE")
       ELSE mt.info["license"] = Templates_defaultlicense(CurrentYear)
  /\ (mt.class = "ModToolAdd" /\ mt.pc # "setup" /\ mt.status = "returned")
       => LicenseChosen

\* The flag names a file that is there beside LICENSE and LICENCE, and the
\* run has written the block with it.
C13_Witness ==
  /\ LicenseChosen
  /\ LicenseFlagged
  /\ ModuleFile(Val(mt.options.license_file)) = Some("Public domain\n")
  /\ ModuleFile("LICENSE") # None /\ ModuleFile("LICENCE") # None
  /\ mt.info["license"] = "Public domain\n"
  /\ mt.status = "returned"

(***************************************************************************)
(* Claims about the kind of the block.                                     *)
(***************************************************************************)

\* setup() of add has completed: the run is between two steps of run(), or
\* has returned.
AddSetupCompleted ==
  /\ mt.class = "ModToolAdd"
  /\ \/ mt.status = "running" /\ mt.pc # "setup"
     \/ mt.status = "returned"

\* The kinds the run has announced as chosen.
ChosenKinds ==
  {t \in block_types :
     \E i \in 1..Len(mt.out) : mt.out[i] = "Code is of type: " \o t}

ZeroSig == "0, 0, 0"

\* The kind and the signatures after setup are those of the chosen kind:
\* source and sink have become sync with one signature zero, every other
\* kind is as chosen with the signatures of __init__.
KindAsChosen(chosen) ==
  /\ mt.info["blocktype"] \notin {"sink", "source"}
  /\ chosen = "source" =>
       /\ mt.info["blocktype"] = "sync"
       /\ mt.info["inputsig"] = ZeroSig
       /\ mt.info["outputsig"] = DefaultSig
  /\ chosen = "sink" =>
       /\ mt.info["blocktype"] = "sync"
       /\ mt.info["outputsig"] = ZeroSig
       /\ mt.info["inputsig"] = DefaultSig
  /\ chosen \notin {"sink", "source"} =>
       /\ mt.info["blocktype"] = chosen
       /\ mt.info["inputsig"] = DefaultSig
       /\ mt.info["outputsig"] = DefaultSig

\* C14 as stated: after add's setup the kind is never sink or source;
\* source has become sync with the input signature zero, sink has become
\* sync with the output signature zero, every other kind is left as chosen;
\* and the resulting kind always has an entry in grtypelist.
C14_KindNormalisedWithBaseType ==
  AddSetupCompleted =>
    /\ ChosenKinds # {}
    /\ \A chosen \in ChosenKinds : KindAsChosen(chosen)
    /\ mt.info["blocktype"] \in DOMAIN grtypelist

\* What holds of the kind: all of the above but the entry of grtypelist,
\* which every kind but hierpython has.
KindNormalised ==
  AddSetupCompleted =>
    /\ Cardinality(ChosenKinds) = 1
    /\ \A chosen \in ChosenKinds : KindAsChosen(chosen)
    /\ mt.info["blocktype"] \in DOMAIN grtypelist
         <=> mt.info["blocktype"] # "hierpython"

\* A run of add for a source, after setup.
SourceNormalised ==
  /\ AddSetupCompleted
  /\ "source" \in ChosenKinds
  /\ mt.info["blocktype"] = "sync"

(***************************************************************************)
(* Claims about the order of the steps of add.                             *)
(***************************************************************************)

\* The subdirectory and the name of the file entry i of the log is about.
LogSubdir(i) == Basename(Dirname(mt.log[i].path))
LogName(i)   == Basename(mt.log[i].path)

IsTestName(name) == Len(name) >= 3 /\ SubSeq(name, 1, 3) = "qa_"

\* Entry i of the log writes the test skeleton of subdirectory d, or follows
\* such a write with none of another file of d in between.
RECURSIVE AfterTestIn(_, _)
AfterTestIn(d, i) ==
  IF i = 0 THEN FALSE
  ELSE IF LogSubdir(i) # d \/ LogName(i) = "CMakeLists.txt"
    THEN AfterTestIn(d, i - 1)
  ELSE IsTestName(LogName(i))

\* The step of add that made entry i of the log.
StepOf(i) ==
  LET d == LogSubdir(i)
      registers == LogName(i) = "CMakeLists.txt"
  IN  IF d = "swig" THEN "swig"
      ELSE IF d = "grc" THEN "grc"
      ELSE IF d = "python"
        THEN IF AfterTestIn(d, i) THEN "python_qa"
             ELSE IF registers THEN "hier_registered" ELSE "hier"
      ELSE IF d = "lib" /\ AfterTestIn(d, i) THEN "cc_qa"
      ELSE IF registers THEN "registered"
      ELSE "primary"

\* The place of each step in the order of the claim, where the block in
\* python/ of a hierpython is a primary file, and in the order of run().
ClaimedPlace ==
  [primary |-> 1, hier |-> 1, registered |-> 2, hier_registered |-> 2,
   cc_qa |-> 3, python_qa |-> 4, swig |-> 5, grc |-> 6]
CodedPlace ==
  [primary |-> 1, registered |-> 2, cc_qa |-> 3, swig |-> 4, python_qa |-> 5,
   hier |-> 6, hier_registered |-> 7, grc |-> 8]

InOrderOf(place) ==
  \A i, j \in 1..Len(mt.log) :
    i < j => place[StepOf(i)] <= place[StepOf(j)]

\* C15 as stated: in every add run the steps occur in the order primary
\* files written, primary files registered, C++ test written and
\* registered, python test written and registered, swig file patched, grc
\* file written and registered.
C15_StepsInClaimedOrder == mt.class = "ModToolAdd" => InOrderOf(ClaimedPlace)

\* C15 as the code has it: in every add run the steps occur in the order
\* primary files in include/ and lib/ written, registered, C++ test written
\* and registered, swig file patched, python test written and registered,
\* python block of a hierpython written and registered, grc file written
\* and registered.
C15_StepsInCodedOrder == mt.class = "ModToolAdd" => InOrderOf(CodedPlace)

LoggedSteps == {StepOf(i) : i \in 1..Len(mt.log)}

\* A run that has returned after all six steps of the claim.
C15_Witness ==
  /\ mt.class = "ModToolAdd"
  /\ mt.status = "returned"
  /\ {"primary", "registered", "cc_qa", "python_qa", "swig", "grc"}
       \subseteq LoggedSteps

(***************************************************************************)
(* Claims about the switches of add and remove.                            *)
(***************************************************************************)

\* The CMakeLists.txt files of the four subdirectories of the module, as
\* paths of the file system.
BuildFiles ==
  {PathJoin(TargetDirectory, PathJoin(d, "CMakeLists.txt")) :
     d \in {"lib", "include", "python", "grc"}}

\* File q is as it was at the start: not there, or there with its text.
Untouched(q) ==
  /\ q \in DOMAIN mt.fs.files <=> q \in DOMAIN mt.start.files
  /\ q \in DOMAIN mt.fs.files => mt.fs.files[q] = mt.start.files[q]

\* C16: with --skip-cmakefiles the contents of every CMakeLists.txt in lib,
\* include, python and grc are unchanged by add, for every kind and every
\* choice of tests.
C16_SkipCmakefilesLeavesBuildFiles ==
  (mt.class = "ModToolAdd" /\ mt.options.skip_cmakefiles) =>
    \A q \in BuildFiles : Untouched(q)

\* What holds with --skip-cmakefiles: the CMakeLists.txt of lib and of
\* include are unchanged, and no step but _run_python_qa, 
\* _run_python_hierblock and _run_grc has written one.
SkipCmakefilesInLib ==
  (mt.class = "ModToolAdd" /\ mt.options.skip_cmakefiles) =>
    /\ \A d \in {"lib", "include"} :
         Untouched(PathJoin(TargetDirectory, PathJoin(d, "CMakeLists.txt")))
    /\ \A i \in 1..Len(mt.log) :
         LogName(i) = "CMakeLists.txt" =>
           StepOf(i) \in {"python_qa", "hier_registered", "grc"}

\* A run of add for a hierpython in the fresh module that has ended
\* otherwise than by sys.exit.
HierpythonEnded ==
  /\ mt.class = "ModToolAdd"
  /\ mt.start = FreshModule
  /\ "hierpython" \in ChosenKinds
  /\ mt.pc = "done"
  /\ mt.status # "exited"

\* The files a run has written in subdirectory d of the module.
WrittenIn(d) ==
  {LogName(i) : i \in {i \in 1..Len(mt.log) :
                         mt.log[i].op = "write" /\ LogSubdir(i) = d}}

\* C17: add of a hierpython completes successfully, writes no source or
\* header in lib/ and include/, and writes a single python file for the
\* block in python/, which is registered in python/CMakeLists.txt.
C17_HierpythonCompletes ==
  HierpythonEnded =>
    /\ mt.status = "returned"
    /\ WrittenIn("lib") = {} /\ WrittenIn("include") = {}
    /\ LET fname_py == mt.info["blockname"] \o ".py"
       IN  /\ WrittenIn("python") \ {"CMakeLists.txt"}
                \in {{fname_py}, {fname_py, "qa_" \o mt.info["fullblockname"] \o ".py"}}
           /\ PathJoin("python", fname_py) \in DOMAIN mt.fs.files
           /\ mt.fs.files[PathJoin("python", fname_py)] # ""
           /\ RefersTo(mt.fs.files["python/CMakeLists.txt"], fname_py)

\* What holds of such a run: it ends with KeyError, having written nothing
\* in lib/ and include/, and one empty file in python/ that no
\* CMakeLists.txt names.
HierpythonRaises ==
  HierpythonEnded =>
    /\ mt.status = "raised" /\ mt.error = "KeyError"
    /\ WrittenIn("lib") = {} /\ WrittenIn("include") = {}
    /\ Len(mt.log) = 1
    /\ mt.fs.files[mt.log[1].path] = ""
    /\ \A q \in BuildFiles : Untouched(q)

\* The log has an entry about a file of subdirectory d.
Touched(d) == \E i \in 1..Len(mt.log) : LogSubdir(i) = d

\* The subdirectories whose skip switch is set.
SkippedByOption ==
  {d \in {"lib", "swig", "python", "grc"} :
     \/ d = "lib" /\ mt.options.skip_lib
     \/ d = "swig" /\ mt.options.skip_swig
     \/ d = "python" /\ mt.options.skip_python
     \/ d = "grc" /\ mt.options.skip_grc}

\* C18: when the skip switch of a subdirectory is set (--skip-lib,
\* --skip-swig, --skip-python, --skip-grc), add and remove create, modify
\* and delete no file under it.
C18_SkippedSubdirUntouched ==
  mt.class \in {"ModToolAdd", "ModToolRemove"} =>
    \A d \in SkippedByOption : ~Touched(d)

\* What holds of the switches: --skip-lib and --skip-swig keep add and
\* remove out of lib/ and swig/, and --skip-python keeps them out of
\* python/ but for the block of a hierpython.
SkippedAsCoded ==
  mt.class \in {"ModToolAdd", "ModToolRemove"} =>
    \A d \in SkippedByOption :
      \/ ~Touched(d)
      \/ d = "grc"
      \/ d = "python" /\ "hierpython" \in ChosenKinds

\* A hierpython is added in python/ in spite of --skip-python.
SkipPythonIgnored ==
  /\ mt.class = "ModToolAdd"
  /\ mt.options.skip_python
  /\ Touched("python")

(***************************************************************************)
(* Claims about the answers remove gets.                                   *)
(***************************************************************************)

\* A remove run without yes to all.
RemoveAsking == mt.class = "ModToolRemove" /\ ~mt.options.yes

\* The name that file q of the file system has in the module directory.
InModule(q) ==
  LET n == Len(TargetDirectory) + 1
  IN  IF TargetDirectory # "." /\ Len(q) > n
           /\ SubSeq(q, 1, n) = TargetDirectory \o "/"
        THEN SubSeq(q, n + 1, Len(q))
      ELSE q

\* The files of the module at the start, by the names remove gives them,
\* and where such a file is in the file system.
ModuleFiles == {InModule(q) : q \in DOMAIN mt.start.files}
OnDisk(f) == PathJoin(TargetDirectory, f)

DeletePrompt(f) == "Really delete " \o f \o "? [Y/n/a/q]: "

\* What was answered when remove asked about file f, as remove reads it:
\* in lower case and without the blanks around it.
AnswersTo(f) ==
  {Strip(lower(mt.stdin[k].answer)) :
     k \in {k \in 1..Len(mt.stdin) : mt.stdin[k].prompt = DeletePrompt(f)}}

\* File f of the module has been deleted.
Gone(f) == OnDisk(f) \notin DOMAIN mt.fs.files

\* The prompt about file g came before the deletion of file f.
AskedBeforeDeleting(g, f) ==
  \E i, j \in 1..Len(mt.out) :
    /\ i < j
    /\ mt.out[i] = DeletePrompt(g)
    /\ mt.out[j] = "Deleting " \o f \o "."

\* File f was confirmed: its prompt was answered otherwise than n or q, or
\* an earlier prompt of its subdirectory was answered a.
Confirmed(f) ==
  \/ AnswersTo(f) \ {"n", "q"} # {}
  \/ \E g \in ModuleFiles :
       /\ Dirname(g) = Dirname(f)
       /\ "a" \in AnswersTo(g)
       /\ AskedBeforeDeleting(g, f)

\* The CMakeLists.txt files that named file f at the start name it still.
ReferencesIntact(f) ==
  \A q \in DOMAIN mt.start.files :
    (Basename(q) = "CMakeLists.txt" /\ RefersTo(mt.start.files[q], Basename(f)))
      => /\ q \in DOMAIN mt.fs.files
         /\ RefersTo(mt.fs.files[q], Basename(f))

\* The answer q was given to the last thing the run asked and printed, and
\* the run has ended there with sys.exit(0).
QuitEndsRun ==
  \A k \in 1..Len(mt.stdin) :
    (/\ \E f \in ModuleFiles : mt.stdin[k].prompt = DeletePrompt(f)
     /\ Strip(lower(mt.stdin[k].answer)) = "q")
      => /\ k = Len(mt.stdin)
         /\ mt.out[Len(mt.out)] = mt.stdin[k].prompt
         /\ mt.status = "exited" /\ mt.code = 0

\* C19: in a remove run without yes to all, no file is deleted unless its
\* prompt was answered otherwise than n or q or an earlier prompt of the
\* same subdirectory was answered a; a file answered n is left on disk with
\* its references in the build files intact; after q no further file is
\* deleted.
C19_DeletionNeedsConfirmation ==
  RemoveAsking =>
    /\ \A f \in ModuleFiles : Gone(f) => Confirmed(f)
    /\ \A f \in ModuleFiles :
         "n" \in AnswersTo(f) =>
           /\ ~Gone(f)
           /\ mt.fs.files[OnDisk(f)] = mt.start.files[OnDisk(f)]
           /\ ReferencesIntact(f)
    /\ \A f \in ModuleFiles : "q" \in AnswersTo(f) => ~Gone(f)
    /\ QuitEndsRun

\* A run in which one file was kept by n, another deleted by a plain
\* return, and q ended the run.
KeptDeletedQuit ==
  /\ RemoveAsking
  /\ mt.status = "exited"
  /\ \E f, g, h \in ModuleFiles :
       /\ "n" \in AnswersTo(f) /\ ~Gone(f)
       /\ "" \in AnswersTo(g) /\ Gone(g)
       /\ "q" \in AnswersTo(h)

\* What holds of the answers: all of the above but the references of a
\* file answered n.
ConfirmationAsCoded ==
  RemoveAsking =>
    /\ \A f \in ModuleFiles : Gone(f) => Confirmed(f)
    /\ \A f \in ModuleFiles :
         "n" \in AnswersTo(f) =>
           /\ ~Gone(f)
           /\ mt.fs.files[OnDisk(f)] = mt.start.files[OnDisk(f)]
    /\ \A f \in ModuleFiles : "q" \in AnswersTo(f) => ~Gone(f)
    /\ QuitEndsRun

\* A file deleted unasked after the answer a to an earlier prompt.
DeletedAfterAll ==
  /\ RemoveAsking
  /\ \E f \in ModuleFiles : Gone(f) /\ AnswersTo(f) = {}

\* The CMakeLists.txt of the subdirectory of file f of the module.
BuildFileOf(f) == OnDisk(PathJoin(Dirname(f), "CMakeLists.txt"))

\* File f is gone and the CMakeLists.txt of its subdirectory names it still.
GoneButRegistered(f) ==
  /\ Gone(f)
  /\ BuildFileOf(f) \in DOMAIN mt.fs.files
  /\ RefersTo(mt.fs.files[BuildFileOf(f)], Basename(f))

\* C20: whenever a remove run ends, also when it ends by the answer q,
\* every file it deleted has had its references stripped from the
\* CMakeLists.txt of its subdirectory as it is on disk.
C20_DeletedFilesUnregistered ==
  (mt.class = "ModToolRemove" /\ mt.pc = "done") =>
    \A f \in ModuleFiles : ~GoneButRegistered(f)

\* What holds when a run returns: a deleted file that its CMakeLists.txt
\* still names is a python test, whose GR_ADD_TEST line remove never
\* edits, or a C++ test whose name is the beginning of the name of another
\* test entered before it.
UnregisteredOnReturn ==
  (mt.class = "ModToolRemove" /\ mt.status = "returned") =>
    \A f \in ModuleFiles :
      GoneButRegistered(f) =>
        \/ Dirname(f) = "python" /\ IsTestName(Basename(f))
        \/ /\ Dirname(f) = "lib" /\ IsTestName(Basename(f))
           /\ \E g \in ModuleFiles \ {f} :
                /\ Dirname(g) = "lib"
                /\ Contains(Basename(g), SplitextBase(Basename(f)))

\* A run ended by q after it had deleted a file.
QuitAfterDeleting ==
  /\ mt.class = "ModToolRemove"
  /\ mt.status = "exited" /\ mt.code = 0
  /\ \E f \in ModuleFiles : Gone(f)

(***************************************************************************)
(* Claims about the errors of the code generator.                          *)
(***************************************************************************)

\* The placeholders of the Template objects a request for tpl_id renders.
PlaceholdersOf(segs) == {segs[i].t : i \in {i \in 1..Len(segs) : segs[i].var}}

Placeholders(tpl_id) ==
  IF tpl_id = "block_cpp"
    THEN PlaceholdersOf(Templates_block_cpp)
           \cup PlaceholdersOf(Templates_block_cpp_workcall)
  ELSE IF tpl_id \in DOMAIN TemplateObjects
    THEN PlaceholdersOf(TemplateObjects[tpl_id])
  ELSE {}

\* The entries get_template derives others from, whatever the template.
DerivedFrom == {"arglist", "fullblockname", "modname", "blocktype"}

\* A request has been answered; the id is one of Templates; an entry the
\* template refers to or another is derived from was left out.
Rendered == cg.tpl_id # ""
KnownId == cg.tpl_id \in TemplateIds
BindingMissing == cg.dropped \in Placeholders(cg.tpl_id) \cup DerivedFrom

\* The entries get_template adds for the template asked for.
DerivedKeys(tpl_id) ==
  {"argliststripped", "arglistnotypes", "fullblocknameupper", "modnameupper",
   "grblocktype", "swig"}
    \cup (IF tpl_id = "block_h" THEN {"workfunc"} ELSE {})
    \cup (IF tpl_id = "block_cpp"
            THEN {"workfunc", "decimation", "constructorcontent", "sptr"}
          ELSE {})

\* Nothing was left out, and every placeholder of the template is an entry
\* of self._info or one get_template adds.
AllSupplied ==
  /\ cg.dropped = "nothing"
  /\ Placeholders(cg.tpl_id) \subseteq RenderKeys \cup DerivedKeys(cg.tpl_id)

\* The errors requests end with when the id is known and a binding is
\* missing, over all the requests of the specification.
MissingBindingErrors ==
  {get_template(tpl_id, Without(AddInfo("bar", "foo", blocktype, license,
                                        "int a, float b = 2.0"), key)).error :
     tpl_id \in DOMAIN TemplateObjects, blocktype \in {"sync"},
     license \in {"GPL\nv3\n"}, key \in DerivedFrom}

\* C21: rendering fails with two distinguishable errors and no text, one
\* when a binding the template refers to or derives from is missing, the
\* other when the id is unknown; with a known id and all bindings supplied
\* it never fails.
C21_RenderFailsOnlyForIdOrBinding ==
  Rendered =>
    /\ ~cg.result.ok => cg.result.text = ""
    /\ (KnownId /\ BindingMissing) => ~cg.result.ok
    /\ ~KnownId =>
         /\ ~cg.result.ok
         /\ cg.dropped = "nothing" => cg.result.error \notin MissingBindingErrors
    /\ (KnownId /\ AllSupplied) => cg.result.ok

\* What holds of a request: it fails without text when the id is unknown
\* or a needed binding is missing, and with all bindings and an id of a
\* Template object it fails only for the kind hierpython and for a license
\* without a line.
RenderAsCoded ==
  Rendered =>
    /\ ~cg.result.ok => cg.result.text = ""
    /\ (KnownId /\ BindingMissing) => ~cg.result.ok
    /\ ~KnownId => ~cg.result.ok /\ cg.result.error \in {"KeyError", "IndexError"}
    /\ (~KnownId /\ cg.dropped = "nothing" /\ cg.kwargs.license # "")
         => cg.result.error = "KeyError"
    /\ MissingBindingErrors = {"KeyError"}
    /\ (cg.tpl_id \in DOMAIN TemplateObjects /\ AllSupplied) =>
         (cg.result.ok <=>
            /\ cg.kwargs.blocktype # "hierpython"
            /\ cg.kwargs.blocktype \notin {"sink", "source"}
            /\ ~(cg.kwargs.license = "" /\ cg.tpl_id \in
                   {"block_h", "block_cpp", "qa_cpp", "impl_h", "impl_cpp"}))
    /\ (KnownId /\ cg.tpl_id \notin DOMAIN TemplateObjects
          /\ cg.dropped = "nothing") => ~cg.result.ok

(***************************************************************************)
(* Claims about the directory newmod fills.                                *)
(***************************************************************************)

\* setup of newmod is over and had a name to look at.
NewmodNamed ==
  /\ mt.class = "ModToolNewModule"
  /\ mt.pc # "setup"
  /\ "modname" \in DOMAIN mt.info

\* Every character of name is a letter, a digit or an underscore, and there
\* is one at least.
IdentifierOnly(name) ==
  /\ Len(name) > 0
  /\ \A i \in 1..Len(name) : Ch(name, i) \in IdentChars

\* The directory newmod is to fill.
NewmodTarget ==
  IF mt.options.directory = "." THEN "./gr-" \o mt.info["modname"]
  ELSE mt.options.directory

\* The directory newmod is to fill was there when the command started.
NewmodTargetExisted == Exists([mt EXCEPT !.fs = mt.start, !.cwd = "."],
                              NewmodTarget)

\* The command has exited with code 2 and nothing of the file system has
\* changed.
RefusedUntouched ==
  /\ mt.status = "exited"
  /\ mt.code = 2
  /\ NoFileModified
  /\ mt.log = <<>>

\* setup of newmod has let the module name pass.
NameAccepted ==
  /\ NewmodNamed
  /\ ~(mt.status = "exited" /\ mt.out # <<>>
         /\ mt.out[Len(mt.out)] = "Invalid module name.")

\* C22: newmod populates only a directory it created itself: when the target
\* directory exists already the command exits with code 2 and has created,
\* modified and deleted nothing; and it accepts a module name only if the
\* name consists entirely of identifier characters.
C22_NewmodOnlyFillsItsOwnDirectory ==
  /\ (NewmodNamed /\ NewmodTargetExisted) => RefusedUntouched
  /\ NameAccepted => IdentifierOnly(mt.info["modname"])

\* What holds of it: an existing target is refused with nothing touched, and
\* the name is let pass exactly when it starts with an identifier character.
NewmodAsCoded ==
  /\ (NewmodNamed /\ NewmodTargetExisted) => RefusedUntouched
  /\ NewmodNamed =>
       (NameAccepted <=>
          /\ Len(mt.info["modname"]) > 0
          /\ Ch(mt.info["modname"], 1) \in IdentChars)

\* A name with a character that is none of an identifier has been let pass
\* and the module directory of that name has been filled.
DashedNameFilled ==
  /\ BootstrapCompleted
  /\ ~IdentifierOnly(mt.info["modname"])
  /\ mt.log # <<>>

(***************************************************************************)
(* Claims about what the editor changes.                                   *)
(***************************************************************************)

\* The declarations of keyword entry in buffer s: the keyword, whitespace
\* or none, and an argument list in parentheses that holds no parenthesis.
\* Each is given by where the keyword starts and where the two parentheses
\* are.
DeclarationAt(s, entry, at) ==
  LET open   == at + Len(entry) + RunLen(In(WS), s, at + Len(entry), TRUE)
      parens == {c \in (open + 1)..Len(s) : Ch(s, c) \in {"(", ")"}}
  IN  IF Ch(s, open) # "(" \/ parens = {} THEN {}
      ELSE IF Ch(s, Least(parens)) # ")" THEN {}
      ELSE {[at |-> at, open |-> open, close |-> Least(parens)]}

Declarations(s, entry) ==
  UNION {DeclarationAt(s, entry, at) : at \in Occurrences(s, entry, 1)}

\* The text of the argument list of declaration d.
ArgsOf(s, d) == SubSeq(s, d.open + 1, d.close - 1)

\* The declarations of entry whose arguments the pattern is found in.
DeclarationsWith(s, entry, pattern) ==
  {d \in Declarations(s, entry) :
     Search(RawRegex(pattern), ArgsOf(s, d)) # <<>>}

\* The last operation of the editor, if any.
LastOp == IF ed.ops = <<>> THEN "" ELSE ed.ops[Len(ed.ops)]

\* The last operation was a mutation whose pattern matched no declaration
\* of the buffer it was applied to.
MutationWithoutMatch ==
  \/ LastOp = "append_value" /\ Declarations(ed.prev, EdEntry) = {}
  \/ /\ LastOp \in {"remove_value", "delete_entry"}
     /\ DeclarationsWith(ed.prev, EdEntry, EdValue) = {}

\* C23: append_value, remove_value and delete_entry leave the buffer exactly
\* as it was when their pattern matches no declaration of it.
C23_NoMatchLeavesBuffer ==
  MutationWithoutMatch => ed.cfile = ed.prev

\* A mutation has been applied to a buffer that holds the keyword and the
\* value, but no declaration for its pattern, and the buffer is as it was.
C23_Witness ==
  /\ MutationWithoutMatch
  /\ Contains(ed.prev, EdEntry \o "(")
  /\ Contains(ed.prev, EdValue)
  /\ ed.cfile = ed.prev

(***************************************************************************)
(* The editor on install declarations: append_value with and without the   *)
(* part of the arguments to ignore.                                        *)
(***************************************************************************)

\* The pieces the buffers are made of, the keyword and the value appended.
InsChunks ==
  {"install(", "install(a.h", "install(a.h)", ")", " ", "\n",
   "DESTINATION inc"}
InsEntry == "install"
InsValue == "v.h"

\* to_ignore of a call: 'DESTINATION[^()]+' or ''.
InsIgnore(suffix) == IF suffix THEN DestinationIgnore ELSE NoIgnore

\* CMakeFileEditor.__init__, and whether the calls name the part to ignore.
InsInit ==
  \E text \in StringsOf(InsChunks, MaxChunks), sep \in EdSeparators,
     suffix \in BOOLEAN :
    /\ ed = [cfile |-> text, separator |-> sep, orig |-> text, prev |-> text,
             ops |-> <<>>, suffix |-> suffix]
    /\ cg = Idle /\ cli = Idle /\ mt = Idle

\* CMakeFileEditor.append_value
InsAppendValue ==
  /\ Len(ed.ops) < 2
  /\ ed' = [ed EXCEPT !.cfile = append_value(ed.cfile, ed.separator, InsEntry,
                                             InsValue, InsIgnore(ed.suffix)),
                      !.prev = ed.cfile,
                      !.ops = Append(ed.ops, "append_value")]
  /\ UNCHANGED <<cg, cli, mt>>

InsNext == InsAppendValue

SpecIns == InsInit /\ [][InsNext]_vars

(***************************************************************************)
(* Claims about append_value.                                              *)
(***************************************************************************)

\* The words of s: its runs of characters that are no whitespace.
Words(s) ==
  LET starts == {p \in 1..Len(s) :
                   Ch(s, p) \notin WS /\ (p = 1 \/ Ch(s, p - 1) \in WS)}
  IN  [i \in 1..Cardinality(starts) |->
         SubSeq(s, Nth(starts, i),
                Nth(starts, i) + RunLen(NotIn(WS), s, Nth(starts, i), TRUE) - 1)]

\* Where in the arguments a part to ignore may start: at 'DESTINATION' with
\* a character at least after it.
SuffixStarts(args) ==
  {k \in Occurrences(args, "DESTINATION", 1) : k + 11 <= Len(args)}

\* Where the value may go in the arguments: before a part to ignore when
\* the call names one, and at their end otherwise.
ValuePlaces(args, suffix) ==
  IF suffix THEN SuffixStarts(args) ELSE {Len(args) + 1}

\* The declarations append_value may change: the keyword with the
\* parenthesis right after it and, when the call names a part to ignore,
\* with that part in the arguments.
Appendable(s, suffix) ==
  {d \in Declarations(s, InsEntry) :
     /\ d.open = d.at + Len(InsEntry)
     /\ ValuePlaces(ArgsOf(s, d), suffix) # {}}

\* The first of them.
FirstAppendable(s, suffix) ==
  CHOOSE d \in Appendable(s, suffix) :
    \A e \in Appendable(s, suffix) : d.at <= e.at

\* new is old with other arguments in declaration d, and what they are.
OnlyArgsDiffer(old, new, d) ==
  /\ Len(new) >= d.open + 1 + (Len(old) - d.close)
  /\ SubSeq(new, 1, d.open) = SubSeq(old, 1, d.open)
  /\ SubSeq(new, Len(new) - (Len(old) - d.close), Len(new))
       = SubSeq(old, d.close, Len(old))
ArgsIn(old, new, d) ==
  SubSeq(new, d.open + 1, Len(new) - (Len(old) - d.close) - 1)

\* args is was with the value as a word of its own at one of the places.
ValueAdded(was, args, suffix) ==
  \E k \in ValuePlaces(was, suffix) :
    Words(args) = Words(SubSeq(was, 1, k - 1)) \o <<InsValue>>
                    \o Words(SubSeq(was, k, Len(was)))

\* append_value has been applied to a buffer with a declaration it may
\* change.
AppendedToDeclaration ==
  LastOp = "append_value" /\ Appendable(ed.prev, ed.suffix) # {}

\* C24: append_value changes only the first matching declaration of the
\* buffer: the value becomes its last argument before the closing
\* parenthesis, or before the part to ignore when the call names one, the
\* arguments it had keep their order, and the rest of the buffer is as it
\* was.
C24_AppendChangesFirstDeclaration ==
  AppendedToDeclaration =>
    LET d == FirstAppendable(ed.prev, ed.suffix)
    IN  /\ OnlyArgsDiffer(ed.prev, ed.cfile, d)
        /\ ValueAdded(ArgsOf(ed.prev, d), ArgsIn(ed.prev, ed.cfile, d),
                      ed.suffix)

\* What holds of it: the claim, for the calls that name no part to ignore
\* and for the declarations where whitespace stands before each place the
\* part to ignore may start at.
SuffixSpaced(args) ==
  \A k \in SuffixStarts(args) : k > 1 /\ Ch(args, k - 1) \in WS

AppendAsCoded ==
  (AppendedToDeclaration
     /\ (ed.suffix =>
           SuffixSpaced(ArgsOf(ed.prev, FirstAppendable(ed.prev, ed.suffix)))))
    => LET d == FirstAppendable(ed.prev, ed.suffix)
       IN  /\ OnlyArgsDiffer(ed.prev, ed.cfile, d)
           /\ ValueAdded(ArgsOf(ed.prev, d), ArgsIn(ed.prev, ed.cfile, d),
                         ed.suffix)

(***************************************************************************)
(* Claims about remove_value.                                              *)
(***************************************************************************)

\* The declarations of the keyword, the parenthesis right after it, with
\* the value as a word of its own among the arguments.
DeclarationsOfValue(s) ==
  {d \in Declarations(s, EdEntry) :
     /\ d.open = d.at + Len(EdEntry)
     /\ \E i \in DOMAIN Words(ArgsOf(s, d)) : Words(ArgsOf(s, d))[i] = EdValue}

\* The first of them.
FirstOfValue(s) ==
  CHOOSE d \in DeclarationsOfValue(s) :
    \A e \in DeclarationsOfValue(s) : d.at <= e.at

\* The words of args are those of was without one that is the value.
ValueRemoved(was, args) ==
  \E i \in DOMAIN Words(was) :
    /\ Words(was)[i] = EdValue
    /\ Words(args) = SubSeq(Words(was), 1, i - 1)
                       \o SubSeq(Words(was), i + 1, Len(Words(was)))

\* remove_value took the value out of the first declaration that has it as
\* a word, and nothing else; with no such declaration the buffer is as it
\* was.
RemovedFromFirst(old, new) ==
  IF DeclarationsOfValue(old) = {} THEN new = old
  ELSE /\ OnlyArgsDiffer(old, new, FirstOfValue(old))
       /\ ValueRemoved(ArgsOf(old, FirstOfValue(old)),
                       ArgsIn(old, new, FirstOfValue(old)))

\* C25: remove_value deletes the value only where it is a word of its own
\* among the arguments of the first matching declaration: the other words,
\* those that hold the value as a part included, keep their text and their
\* order, and the text outside the argument list, the blank lines and the
\* indentation before the declaration included, is as it was.
C25_RemoveTakesStandaloneValue ==
  LastOp = "remove_value" => RemovedFromFirst(ed.prev, ed.cfile)

\* The first declaration of the keyword that has the value pattern in its
\* arguments starts the buffer or a line after a line that ends in no
\* whitespace, and has the pattern only in words that are the value.
CleanRemoval(s) ==
  /\ DeclarationsWith(s, EdEntry, EdValue) # {}
  /\ LET d == CHOOSE d \in DeclarationsWith(s, EdEntry, EdValue) :
                \A e \in DeclarationsWith(s, EdEntry, EdValue) : d.at <= e.at
     IN  /\ d.at = 1 \/ (d.at >= 3 /\ Ch(s, d.at - 1) = "\n"
                           /\ Ch(s, d.at - 2) \notin WS)
         /\ d.open = d.at + Len(EdEntry)
         /\ \A i \in DOMAIN Words(ArgsOf(s, d)) :
              Contains(Words(ArgsOf(s, d))[i], EdValue)
                => Words(ArgsOf(s, d))[i] = EdValue

\* What holds of it: the claim, for such buffers.
RemoveAsCoded ==
  (LastOp = "remove_value" /\ CleanRemoval(ed.prev))
    => RemovedFromFirst(ed.prev, ed.cfile)

(***************************************************************************)
(* Claims about delete_entry.                                              *)
(***************************************************************************)

\* The first declaration of the keyword with the value pattern in its
\* arguments.
FirstWith(s) ==
  CHOOSE d \in DeclarationsWith(s, EdEntry, EdValue) :
    \A e \in DeclarationsWith(s, EdEntry, EdValue) : d.at <= e.at

\* Where the line that position p is on starts, and where the newline that
\* ends it is (after the buffer when there is none).
LineStart(s, p) ==
  LET before == {q \in 1..(p - 1) : Ch(s, q) = "\n"}
  IN  IF before = {} THEN 1 ELSE Most(before) + 1
LineEnd(s, p) ==
  LET after == {q \in p..Len(s) : Ch(s, q) = "\n"}
  IN  IF after = {} THEN Len(s) + 1 ELSE Least(after)

\* s without the lines declaration d is on, their newline included.
WithoutLinesOf(s, d) ==
  SubSeq(s, 1, LineStart(s, d.at) - 1)
    \o SubSeq(s, LineEnd(s, d.close) + 1, Len(s))

\* delete_entry has been applied to a buffer with a declaration for its
\* pattern.
DeletedDeclaration ==
  /\ LastOp = "delete_entry"
  /\ DeclarationsWith(ed.prev, EdEntry, EdValue) # {}

\* C26: delete_entry removes exactly one declaration, the first of the
\* keyword whose arguments match the value pattern, with its entire line
\* and the newline that ends it, also when the declaration is indented or
\* is on the last line of the buffer, and leaves every other line as it was.
C26_DeleteTakesWholeLine ==
  DeletedDeclaration
    => ed.cfile = WithoutLinesOf(ed.prev, FirstWith(ed.prev))

\* What holds of it: the claim, when the declaration starts its line and a
\* newline ends the line; without a newline after it the declaration stays.
DeleteAsCoded ==
  DeletedDeclaration =>
    LET d == FirstWith(ed.prev)
    IN  /\ (LineStart(ed.prev, d.at) = d.at
              /\ LineEnd(ed.prev, d.close) <= Len(ed.prev))
             => ed.cfile = WithoutLinesOf(ed.prev, d)
        /\ LineEnd(ed.prev, d.close) > Len(ed.prev) => ed.cfile = ed.prev

(***************************************************************************)
(* Claims about the declarations remove takes out of lib/CMakeLists.txt.   *)
(***************************************************************************)

\* The files of lib/ at the start, the C++ tests among them that the run has
\* deleted, and the files it has left.
LibFiles ==
  {f \in ModuleFiles : Dirname(f) = "lib" /\ Basename(f) # "CMakeLists.txt"}
DeletedTests == {f \in LibFiles : IsTestName(Basename(f)) /\ Gone(f)}
KeptInLib == {f \in LibFiles : ~Gone(f)}

\* The lines of lib/CMakeLists.txt in file system fs.
LibLines(fs) ==
  Range(splitlines(fs.files[OnDisk("lib/CMakeLists.txt")]))

\* The line declares something of file f: it names the file, or its name
\* without the extension.
DeclaresFile(line, f) ==
  \/ RefersTo(line, Basename(f))
  \/ RefersTo(line, SplitextBase(Basename(f)))

\* A remove run has returned, having deleted a C++ test of lib/.
RemovedTest ==
  /\ mt.class = "ModToolRemove"
  /\ mt.status = "returned"
  /\ DeletedTests # {}

\* C27: when remove deletes the C++ test file of a unit, the declarations it
\* takes out of lib/CMakeLists.txt are exactly those of the deleted file:
\* none of them is left, and the declarations of the files that were not
\* deleted, those whose name holds the name of the deleted file included,
\* remain.
C27_RemovedDeclarationsAreOfDeletedFile ==
  RemovedTest =>
    /\ \A f \in DeletedTests :
         \A line \in LibLines(mt.fs) : ~DeclaresFile(line, f)
    /\ \A g \in KeptInLib :
         \A line \in LibLines(mt.start) :
           (DeclaresFile(line, g)
              /\ \A f \in DeletedTests : ~DeclaresFile(line, f))
             => line \in LibLines(mt.fs)

\* What holds of it: the claim, when no other file of lib/ has the name of
\* the deleted test, without its extension, in its own.
DeclarationsAsCoded ==
  (RemovedTest
     /\ \A f \in DeletedTests : \A g \in LibFiles \ {f} :
          ~Contains(Basename(g), SplitextBase(Basename(f))))
    => /\ \A f \in DeletedTests :
            \A line \in LibLines(mt.fs) : ~DeclaresFile(line, f)
       /\ \A g \in KeptInLib :
            \A line \in LibLines(mt.start) :
              (DeclaresFile(line, g)
                 /\ \A f \in DeletedTests : ~DeclaresFile(line, f))
                => line \in LibLines(mt.fs)

\* A run that deleted the test of one unit and left the source of the unit
\* and its declarations.
TestAloneDeleted ==
  /\ RemovedTest
  /\ \A f \in DeletedTests : \A g \in LibFiles \ {f} :
       ~Contains(Basename(g), SplitextBase(Basename(f)))
  /\ KeptInLib # {}

(***************************************************************************)
(* Claims about what makes a directory a module.                           *)
(***************************************************************************)

\* The directory had one of the subdirectories of a module at the start.
TargetHasSubdir ==
  \E d \in Subdirs : PathJoin(TargetDirectory, d) \in mt.start.dirs

\* setup has taken the directory for a module.
DirectoryAccepted ==
  /\ AfterModSetup
  /\ mt.out # <<>>
  /\ mt.out[1] = "Operating in directory " \o mt.options.directory

\* C28: add and remove accept a directory as a module only if it holds a
\* CMakeLists.txt that looks for GnuradioCore and one at least of the
\* subdirectories lib, include, python, swig and grc; a directory with such
\* a CMakeLists.txt and none of the subdirectories is rejected.
C28_ModuleNeedsBuildFileAndSubdir ==
  DirectoryAccepted =>
    /\ ~TargetAbsent
    /\ ~TargetNotAModule
    /\ TargetHasSubdir

\* What holds of it: the directory is accepted exactly when it holds such a
\* CMakeLists.txt, whatever its subdirectories.
AcceptedAsCoded ==
  AfterModSetup => (DirectoryAccepted <=> ~(TargetAbsent \/ TargetNotAModule))

\* A directory without any of the subdirectories has been accepted, and
\* remove has gone through its steps in it.
BareDirectoryAccepted ==
  /\ DirectoryAccepted
  /\ ~TargetHasSubdir
  /\ mt.class = "ModToolRemove"
  /\ mt.status = "returned"

(***************************************************************************)
(* append_re_line_sequence on the files it may meet.                       *)
(***************************************************************************)

\* The pieces the files are made of: lines the pattern '^#include.*\n'
\* matches, a line it does not match, the start of a comment, and an
\* include without its newline.  The line to paste.
LineChunks ==
  {"#include \"a.h\"\n", "#include \"b.h\"\n", "%{\n", "//",
   "#include \"a.h\""}
LineFile == "swig/bar_swig.i"
NewLine == "#include \"c.h\""

\* A process that has the file before it.
LinesInit ==
  \E text \in StringsOf(LineChunks, MaxChunks) :
    /\ mt = [ModTool_init("ModTool", DefaultOptions, <<>>,
                          [dirs |-> {".", "swig"},
                           files |-> (LineFile :> text)])
               EXCEPT !.pc = "paste"]
    /\ ed = Idle /\ cg = Idle /\ cli = Idle

\* append_re_line_sequence(filename, '^#include.*\n', newline)
LinesPaste ==
  /\ mt.pc = "paste"
  /\ mt' = GoOn(append_re_line_sequence(mt, LineFile, IncludeLine, NewLine),
                "done")
  /\ UNCHANGED <<ed, cg, cli>>

LinesNext == LinesPaste

SpecLines == LinesInit /\ [][LinesNext]_vars

(***************************************************************************)
(* Claims about append_re_line_sequence.                                   *)
(***************************************************************************)

\* Where the lines of s that the pattern matches start: '#include' at the
\* start of a line that a newline ends.
IncludeLines(s) ==
  {p \in Occurrences(s, "#include", 1) :
     LineStart(s, p) = p /\ LineEnd(s, p) <= Len(s)}

\* s with the new line, and a newline, after the line that starts at p.
PastedAfter(s, p) ==
  SubSeq(s, 1, LineEnd(s, p)) \o NewLine \o "\n"
    \o SubSeq(s, LineEnd(s, p) + 1, Len(s))

\* The line has been pasted into the file.
Pasted ==
  /\ mt.class = "ModTool"
  /\ mt.pc = "done"

\* C29: append_re_line_sequence puts the new line into the file exactly
\* once, right after the last line the pattern matches, and leaves every
\* other line, the earlier lines with the text of the last match included,
\* as it was; when the pattern matches no line, the new line is appended
\* once at the end of the file.
C29_LinePastedOnceAfterLastMatch ==
  Pasted =>
    mt.fs.files[LineFile]
      = IF IncludeLines(mt.start.files[LineFile]) = {}
          THEN mt.start.files[LineFile] \o NewLine
        ELSE PastedAfter(mt.start.files[LineFile],
                         Most(IncludeLines(mt.start.files[LineFile])))

\* What holds of it: the claim, for the files that have the text of the
\* last matching line only once.
PasteAsCoded ==
  LET s == mt.start.files[LineFile]
  IN  (Pasted
         /\ (IncludeLines(s) # {} =>
               Cardinality(Occurrences(s,
                 SubSeq(s, Most(IncludeLines(s)),
                        LineEnd(s, Most(IncludeLines(s)))), 1)) = 1))
        => mt.fs.files[LineFile]
             = IF IncludeLines(s) = {} THEN s \o NewLine
               ELSE PastedAfter(s, Most(IncludeLines(s)))

(***************************************************************************)
(* Claims about the end of a remove run.                                   *)
(***************************************************************************)

\* A remove run has ended after a setup that went through, and neither the
\* answer q nor the end of the standard input has ended it.
RemoveRunEnded ==
  /\ mt.class = "ModToolRemove"
  /\ mt.pc = "done"
  /\ "yes" \in DOMAIN mt.info
  /\ mt.status # "exited"
  /\ mt.error # "EOFError"

\* Where the search of subdirectory d is in the output, the subdirectories
\* with a search being those that _run_subdir is called for.
SearchedAt(d) ==
  {i \in 1..Len(mt.out) :
     mt.out[i] = "Searching for matching files in " \o d \o "/:"}
SearchOrder == <<"lib", "include", "python", "grc">>

\* Every subdirectory that is not skipped has been searched, once, and in
\* the order of the steps.
AllSearchedInOrder ==
  /\ \A k \in 1..Len(SearchOrder) :
       Cardinality(SearchedAt(SearchOrder[k]))
         = IF mt.skip_subdirs[SearchOrder[k]] THEN 0 ELSE 1
  /\ \A k, l \in 1..Len(SearchOrder) :
       (k < l /\ SearchedAt(SearchOrder[k]) # {}
          /\ SearchedAt(SearchOrder[l]) # {})
         => Most(SearchedAt(SearchOrder[k])) < Least(SearchedAt(SearchOrder[l]))

\* C30: a remove run that setup accepted goes through every subdirectory
\* that is not skipped, in the order lib, include, swig, python, grc, and
\* returns; also when files of include/ were deleted and the module has no
\* main swig file, python/ and grc/ are gone through.
C30_RemoveRunsToTheEnd ==
  RemoveRunEnded =>
    /\ mt.status = "returned"
    /\ AllSearchedInOrder

\* What holds of it: a run that returns has gone through them all, and a
\* run ends otherwise by the TypeError of the step for swig/, files of
\* include/ deleted and no main swig file there, or by the IOError of the
\* step for python/, python/__init__.py being among the files deleted.
RunEndAsCoded ==
  RemoveRunEnded =>
    IF mt.status = "returned" THEN AllSearchedInOrder
    ELSE \/ /\ mt.error = "TypeError"
            /\ SearchedAt("python") = {} /\ SearchedAt("grc") = {}
            /\ get_mainswigfile(mt) = None
            /\ \E f \in ModuleFiles : Dirname(f) = "include" /\ Gone(f)
         \/ /\ mt.error = "IOError"
            /\ SearchedAt("grc") = {}
            /\ Gone("python/__init__.py")

====
